---- MODULE Spec2Model ----
(***************************************************************************)
(* Transition systems of the top-down dependency parser.                   *)
(*                                                                         *)
(*   impl = "list"   : transition_systems/ltl.py, the list-based           *)
(*                     DFSChildrenFirst (stack, sub_stack, seen, heads,    *)
(*                     children, labels, lex_labels, supertags)            *)
(*   impl = "tensor" : transition_systems/dfs_children_first.py, the       *)
(*                     tensor-based DFSChildrenFirst working on one row of *)
(*                     a DFSChildrenFirstState (variable state)            *)
(*                                                                         *)
(* One batch element is modelled: both step functions treat the rows of a  *)
(* batch one by one.                                                       *)
(***************************************************************************)
EXTENDS Integers, Sequences, FiniteSets, TLC

\* ------------------------------------------------------------------ bounds
\* longest sentence (number of tokens) parsed by the decode loop
MaxTokens == 2
\* longest gold sentence whose decision sequence is built and replayed
MaxGoldTokens == 3
\* number of distinct annotation ids (edge label, supertag, lexical label) the
\* scorer selects; it selects them in turn, one id in each step
NumAnn == 2
\* selections per parse that the preceding valid-choice row (list) or the
\* parent mask and legality threshold (tensor) do not allow
MaxIllegal == 1
\* largest number k of hypotheses the beam search keeps for a sentence
MaxBeam == 2
\* tokens of the longest sentence whose decision sequence get_order computes
MaxOrderTokens == 4
\* longest sentence both transition systems are stepped on side by side
MaxTwinTokens == 3
\* shapes of the tensors given to the set operations of logic_torch.py: batch
\* size, set capacity, number of constants / lexical types, and the largest
\* number of entries of a result tensor
MaxLogicBatch == 2
MaxSetCapacity == 2
MaxLexicalTypes == 2
MaxLogicCells == 2

\* ---------------------------------------------------------------- alphabet
IGNORE == "IGNORE"
None == "None"

\* the strings behind the ids 0..NumAnn-1 a scorer can select
AnnLabel(a) == IF a = 0 THEN "L1" ELSE "L2"
AnnFragment(a) == IF a = 0 THEN "f1" ELSE "f2"
AnnType(a) == IF a = 0 THEN "t1" ELSE "t2"
AnnLex(a) == IF a = 0 THEN "x1" ELSE "x2"

\* "--TYPE--".join(supertag): the two parts around the separator
JoinSupertag(st) == <<st[1], "--TYPE--", st[2]>>
\* AMSentence.split_supertag, the inverse used when a sentence is rebuilt
SplitSupertag(s) == <<s[1], s[3]>>

\* ------------------------------------------------------------ python lists
\* a[k] of a Python list held as a sequence: k >= 0 counts from the front,
\* k < 0 from the back
PyIndex(a, k) == IF k >= 0 THEN k + 1 ELSE Len(a) + k + 1
PySet(a, k, v) == [a EXCEPT ![PyIndex(a, k)] = v]
Reversed(s) == [j \in 1..Len(s) |-> s[Len(s) + 1 - j]]
Last(s) == s[Len(s)]
ButLast(s) == SubSeq(s, 1, Len(s) - 1)

VARIABLES
    impl,                 \* which transition system the run uses
    children_order,       \* "LR" | "RL" | "IO"
    pop_with_0,
    reverse_push_actions,
    has_constants,        \* the scorer provides "constants_scores"
    has_lex_labels,       \* the scorer provides "lex_labels_scores"
    sentences,            \* the sentence being parsed: a sequence of entries
    stack, sub_stack, seen, heads, children, labels, lex_labels, supertags,
    active_node,          \* first value returned by the last step
    valid_choices,        \* second value returned by the last step (set of positions)
    failed,               \* an assertion of step has fired
    state,                \* the row of the DFSChildrenFirstState
    order,                \* gold decisions still to be applied
    steps,                \* iterations of the decode loop performed
    illegal,              \* number of selections so far that were not legal
    budget,               \* how many such selections the scorer makes in a parse
    last,                 \* the last operation and its inputs
    batch,                \* the batches of the batched decode loop
    beam,                 \* the hypotheses of the beam search
    logic                 \* the tensors given to the set operations and their result

cfgvars == <<impl, children_order, pop_with_0, reverse_push_actions,
             has_constants, has_lex_labels, budget>>
listvars == <<stack, sub_stack, seen, heads, children, labels, lex_labels,
              supertags, active_node, valid_choices, failed>>
loopvars == <<batch, beam, logic>>
vars == <<cfgvars, sentences, listvars, state, order, steps, illegal, last, loopvars>>

\* no batch is being decoded, no beam is being searched
NoBatch == <<>>
NoBeam == <<>>
\* no set operation is being evaluated
NoLogic == <<>>

\* every selection of the parse so far was a legal one
Legal == illegal = 0

\* number of tokens of the sentence
N == Len(sentences)
Tokens == 1..N
Nodes == 0..N

\* an entry of an AMSentence: the fields the transition system reads
Entry(h, l, f, t, x) == [head |-> h, label |-> l, fragment |-> f, typ |-> t, lexlabel |-> x]
\* an entry without annotation (what the parser is given at decode time)
BlankEntry == Entry(0, IGNORE, "_", "_", "_")

\* ------------------------------------------------- ltl.py: DFSChildrenFirst
\* reset_parses: the state of a fresh parse of a sentence of n tokens
InitStack == <<0>>
InitSeen == {0}
InitHeads(n) == [j \in 1..n |-> 0]
InitChildren(n) == [v \in 0..n |-> <<>>]
InitLabels(n) == [j \in 1..n |-> IGNORE]
InitLexLabels(n) == [j \in 1..n |-> "_"]
InitSupertags(n) == [j \in 1..n |-> JoinSupertag(<<"_", "_">>)]

\* step, the test that decides between the close branch and the attach branch
IsPop(sel) ==
    \/ (sel \in seen /\ ~pop_with_0)
    \/ (sel = 0 /\ pop_with_0)

\* a flush with the two orders exchanged
FlushSubStack_Flipped(stk, sub) ==
    IF reverse_push_actions THEN stk \o Reversed(sub) ELSE stk \o sub

\* step, close branch: the stack after the pop and the flush of the sub-stack
FlushSubStack(stk, sub) ==
    IF reverse_push_actions THEN stk \o sub ELSE stk \o Reversed(sub)

\* step, close branch: supertags[popped-1] = selected_supertags[i], unless
\* scores_to_selection found no "constants" scores (None)
CloseSupertags(tags, popped, st) ==
    IF st # None THEN PySet(tags, popped - 1, st) ELSE tags

\* step, close branch: lex_labels[popped-1] = selected_lex_labels[i], unless
\* scores_to_selection found no "lex_labels" scores (None)
CloseLexLabels(lex, popped, lx) ==
    IF lx # None THEN PySet(lex, popped - 1, lx) ELSE lex

\* an attach that writes the head of the active node instead of the target's
AttachHeads_Swapped(hd, sel, top) == PySet(hd, top - 1, sel)
\* an attach that indexes the labels with the 1-based node index
AttachLabels_OneBased(lb, sel, lab) == PySet(lb, sel % Len(lb), lab)

\* step, attach branch
AttachHeads(hd, sel, top) == PySet(hd, sel - 1, top)
AttachChildren(ch, sel, top) == [ch EXCEPT ![top] = Append(@, sel)]
AttachLabels(lb, sel, lab) == PySet(lb, sel - 1, lab)
AttachSubStack(sub, sel) == Append(sub, sel)

\* step: the active node returned for the element
ActiveNode(stk) == IF stk = <<>> THEN 0 ELSE Last(stk)

\* a valid-choice row that forgets to leave out the tokens already pushed
NextChoices_AllTokens(stk, sn) ==
    (IF stk = <<>> THEN {} ELSE IF pop_with_0 THEN {0} ELSE {Last(stk)}) \cup (1..N)

\* step: the valid-choice row returned for the element, as the set of the
\* positions set to 1
NextChoices(stk, sn) ==
    (IF stk = <<>> THEN {} ELSE IF pop_with_0 THEN {0} ELSE {Last(stk)})
        \cup {child \in 1..N : child \notin sn}

\* the selection is one the valid-choice row of the previous step allows
IsValidSelection(sel) == sel \in valid_choices

\* step on an element whose stack is not empty, close branch
StepClose(sel, st, lx) ==
    LET popped == Last(stack)
        rest == ButLast(stack)
    IN  IF ~pop_with_0 /\ popped # sel
        THEN \* assert popped == selected_nodes[i] fires after the pop
             /\ stack' = rest
             /\ failed' = TRUE
             /\ UNCHANGED <<sub_stack, seen, heads, children, labels,
                            lex_labels, supertags, active_node, valid_choices>>
        ELSE /\ supertags' = CloseSupertags(supertags, popped, st)
             /\ lex_labels' = CloseLexLabels(lex_labels, popped, lx)
             /\ stack' = FlushSubStack(rest, sub_stack)
             /\ sub_stack' = <<>>
             /\ seen' = seen \cup {sel}
             /\ active_node' = ActiveNode(stack')
             /\ valid_choices' = NextChoices(stack', seen')
             /\ UNCHANGED <<heads, children, labels, failed>>

\* step on an element whose stack is not empty, attach branch
StepAttach(sel, lab) ==
    /\ heads' = AttachHeads(heads, sel, Last(stack))
    /\ children' = AttachChildren(children, sel, Last(stack))
    /\ labels' = AttachLabels(labels, sel, lab)
    /\ sub_stack' = AttachSubStack(sub_stack, sel)
    /\ seen' = seen \cup {sel}
    /\ active_node' = ActiveNode(stack)
    /\ valid_choices' = NextChoices(stack, seen')
    /\ UNCHANGED <<stack, lex_labels, supertags, failed>>

\* step on an element whose stack is empty
StepDone ==
    /\ active_node' = 0
    /\ valid_choices' = {}
    /\ UNCHANGED <<stack, sub_stack, seen, heads, children, labels,
                   lex_labels, supertags, failed>>

\* DFSChildrenFirst.step for the element
ListStep(sel, lab, st, lx) ==
    IF stack # <<>>
    THEN IF IsPop(sel) THEN StepClose(sel, st, lx) ELSE StepAttach(sel, lab)
    ELSE StepDone

\* what kind of step a selection leads to in the current state
StepKind(sel) ==
    IF stack = <<>> THEN "done"
    ELSE IF IsPop(sel)
         THEN (IF ~pop_with_0 /\ Last(stack) # sel THEN "failed" ELSE "close")
         ELSE "attach"

\* ------------------------------------- gold sequences: _construct_seq, get_order
\* Decision(position, label, supertag, lexlabel); pop is the attach-vs-close
\* flag of dfs_children_first.py's Decision, which ltl.py's Decision lacks
Decision(p, isPop, l, st, x) ==
    [position |-> p, pop |-> isPop, label |-> l, supertag |-> st, lexlabel |-> x]

\* Tree.from_am_sentence: the children of node v, in sentence order
RECURSIVE TreeChildrenFrom(_, _, _)
TreeChildrenFrom(sent, v, j) ==
    IF j > Len(sent) THEN <<>>
    ELSE (IF sent[j].head = v THEN <<j>> ELSE <<>>) \o TreeChildrenFrom(sent, v, j + 1)
TreeChildren(sent, v) == TreeChildrenFrom(sent, v, 1)

\* Tree.from_am_sentence: the entry of node v; the artificial root carries
\* no annotation
TreeNode(sent, v) == IF v = 0 THEN BlankEntry ELSE sent[v]

\* an inside-out order whose left part is not reversed
OrderedChildren_SentenceOrder(sent, v) == TreeChildren(sent, v)

\* _construct_seq: the children in the order in which they are visited
OrderedChildren(sent, v) ==
    LET ch == TreeChildren(sent, v)
        IsLeft(c) == c < v
        IsRight(c) == ~(c < v)
    IN  CASE children_order = "LR" -> ch
          [] children_order = "RL" -> Reversed(ch)
          [] children_order = "IO" ->
                Reversed(SelectSeq(ch, IsLeft)) \o SelectSeq(ch, IsRight)

\* a loop that does not skip the children labelled IGNORE
NotIgnored_KeepAll(sent, cs) == cs

\* _construct_seq: the loop skips the children labelled IGNORE
NotIgnored(sent, cs) ==
    LET Keep(c) == TreeNode(sent, c).label # IGNORE
    IN  SelectSeq(cs, Keep)

\* _construct_seq: the push decision of a child
PushDecision(sent, c) == Decision(c, FALSE, TreeNode(sent, c).label, <<"", "">>, "")

\* _construct_seq: the close decision of the node itself
PopDecision(sent, v) ==
    Decision(IF pop_with_0 THEN 0 ELSE v, TRUE, "",
             <<TreeNode(sent, v).fragment, TreeNode(sent, v).typ>>,
             TreeNode(sent, v).lexlabel)

\* push actions that are never reversed
PushActionsFor_NeverReversed(rev, sent, cs) ==
    [j \in 1..Len(cs) |-> PushDecision(sent, cs[j])]

\* _construct_seq: the push actions, reversed when self.reverse_push_actions
\* (rev) is set
PushActionsFor(rev, sent, cs) ==
    LET pushes == [j \in 1..Len(cs) |-> PushDecision(sent, cs[j])]
    IN  IF rev THEN Reversed(pushes) ELSE pushes

RECURSIVE ConstructSeqFor(_, _, _)
RECURSIVE RecursiveActionsFor(_, _, _)
\* _construct_seq: recursive_actions, the sequences of the children in turn
RecursiveActionsFor(rev, sent, cs) ==
    IF cs = <<>> THEN <<>>
    ELSE ConstructSeqFor(rev, sent, Head(cs)) \o RecursiveActionsFor(rev, sent, Tail(cs))

\* _construct_seq of a transition system built with reverse_push_actions = rev
ConstructSeqFor(rev, sent, v) ==
    LET cs == NotIgnored(sent, OrderedChildren(sent, v))
    IN  PushActionsFor(rev, sent, cs) \o <<PopDecision(sent, v)>>
            \o RecursiveActionsFor(rev, sent, cs)

\* a sequence that lacks the decision for the artificial root
GetOrderFor_NoRoot(rev, sent) == ConstructSeqFor(rev, sent, 0)

\* get_order of a transition system built with reverse_push_actions = rev
GetOrderFor(rev, sent) ==
    <<Decision(0, FALSE, TreeNode(sent, 0).label, <<"", "">>, "")>>
        \o ConstructSeqFor(rev, sent, 0)

\* _construct_seq and get_order of the transition system in use
PushActions(sent, cs) == PushActionsFor(reverse_push_actions, sent, cs)
RecursiveActions(sent, cs) == RecursiveActionsFor(reverse_push_actions, sent, cs)
ConstructSeq(sent, v) == ConstructSeqFor(reverse_push_actions, sent, v)
GetOrder(sent) == GetOrderFor(reverse_push_actions, sent)

\* ----------------------------- from a gold decision to the inputs of step
\* the vocabularies of the additional lexicon, ids counted from 0
Vocab(name) ==
    CASE name = "edge_labels" -> <<"", IGNORE, "L1", "L2">>
      [] name = "constants" ->
            <<JoinSupertag(<<"", "">>), JoinSupertag(<<"_", "_">>),
              JoinSupertag(<<"f1", "t1">>), JoinSupertag(<<"f2", "t2">>)>>
      [] name = "lex_labels" -> <<"", "_", "x1", "x2">>
GetId(name, label) == (CHOOSE j \in 1..Len(Vocab(name)) : Vocab(name)[j] = label) - 1
GetStrRepr(name, id) == Vocab(name)[id + 1]

\* get_additional_choices: the class body defines it twice and the second
\* definition (lines 116-122) is the one bound to the name
GetAdditionalChoices(d) ==
    [k \in {"selected_edge_labels", "selected_constants"} |->
        IF k = "selected_edge_labels" THEN d.label ELSE JoinSupertag(d.supertag)]

\* key.split("selected_")
LexiconName(key) ==
    CASE key = "selected_edge_labels" -> "edge_labels"
      [] key = "selected_constants" -> "constants"
      [] key = "selected_lex_labels" -> "lex_labels"

\* additional_choices_to_scores: one row of one-hot scores for each choice,
\* under the name of its vocabulary
AdditionalChoicesToScores(choices) ==
    [name \in {LexiconName(k) : k \in DOMAIN choices} |->
        LET key == CHOOSE k \in DOMAIN choices : LexiconName(k) = name
        IN  [id \in 0..(Len(Vocab(name)) - 1) |->
                IF id = GetId(name, choices[key]) THEN 1 ELSE 0]]

\* torch.argmax over a row: the first position holding the largest score
ArgMax(row) ==
    CHOOSE id \in DOMAIN row :
        /\ \A o \in DOMAIN row : row[o] <= row[id]
        /\ \A o \in DOMAIN row : o < id => row[o] < row[id]

\* scores_to_selection: the string of the best-scored id, None without scores
ScoresToSelection(scores, name) ==
    IF name \in DOMAIN scores THEN GetStrRepr(name, ArgMax(scores[name])) ELSE None

\* ------------------------------------------------------------ gold sentences
\* heads under which every token hangs below the artificial root
RECURSIVE ReachesRoot(_, _, _)
ReachesRoot(h, v, fuel) ==
    IF v = 0 THEN TRUE
    ELSE IF fuel = 0 THEN FALSE
    ELSE ReachesRoot(h, h[v], fuel - 1)
TreeHeads(n) ==
    {h \in [1..n -> 0..n] : \A v \in 1..n : ReachesRoot(h, v, n)}

\* the annotation of token j: tokens differ in label, supertag and lexical label
GoldEntry(h, j, ignored) ==
    IF ignored THEN Entry(h, IGNORE, "_", "_", "_")
    ELSE Entry(h, AnnLabel(j % NumAnn), AnnFragment(j % NumAnn),
               AnnType(j % NumAnn), AnnLex(j % NumAnn))
GoldSentences(n) ==
    {[j \in 1..n |-> GoldEntry(h[j], j, j \in ig)] : h \in TreeHeads(n), ig \in SUBSET (1..n)}

\* the sentence the parser is given at decode time: n tokens, no annotation
BlankSentence(n) == [j \in 1..n |-> BlankEntry]

\* ------------------------------------- BatchedStack, BatchedListofList (one row)
\* BatchedStack.push(values, mask) as initial_state calls it
StackPush(stk, value, mask) == IF mask THEN Append(stk, value) ELSE stk
\* BatchedStack.peek: the top, 0 on an empty stack
StackPeek(stk) == IF stk = <<>> THEN 0 ELSE Last(stk)
StackDepth(stk) == Len(stk)
StackIsEmpty(stk) == Len(stk) = 0

\* the entries of a padded row that the mask row selects, in row order
RECURSIVE Masked(_, _)
Masked(row, mask) ==
    IF row = <<>> THEN <<>>
    ELSE (IF Head(mask) THEN <<Head(row)>> ELSE <<>>) \o Masked(Tail(row), Tail(mask))

\* BatchedStack.pop_and_push_multiple: where pop_mask holds, the top is popped
\* and the selected candidates are pushed; the first selected candidate ends
\* on top unless reverse is set
PopAndPushMultiple(stk, candidates, pop_mask, push_mask, reverse) ==
    IF ~pop_mask THEN stk
    ELSE LET sel == Masked(candidates, push_mask)
         IN  ButLast(stk) \o (IF reverse THEN sel ELSE Reversed(sel))

\* BatchedListofList(batch_size, max_len, max_len): zero-padded rows and the
\* number of entries of each row
EmptyListOfList(max_len) ==
    [lol |-> [v \in 0..(max_len - 1) |-> [j \in 1..max_len |-> 0]],
     ptr |-> [v \in 0..(max_len - 1) |-> 0]]
\* BatchedListofList.append
LolAppend(ch, row, value, mask) ==
    IF ~mask THEN ch
    ELSE [lol |-> [ch.lol EXCEPT ![row][ch.ptr[row] + 1] = value],
          ptr |-> [ch.ptr EXCEPT ![row] = @ + 1]]

\* ------------------------------- dfs_children_first.py: DFSChildrenFirst
\* a stack with fewer slots than the sentence has tokens
StackCapacity_TooSmall(n) == n - 1

\* initial_state, for a batch of one sentence of n tokens
MaxLen(n) == n + 1
StackCapacity(n) == MaxLen(n) + 2
InitialState(n) ==
    [stack |-> StackPush(<<>>, 0, TRUE),
     children |-> EmptyListOfList(MaxLen(n)),
     heads |-> [v \in 0..n |-> 0 - 1],
     edge_labels |-> [v \in 0..n |-> 0],
     constants |-> [v \in 0..n |-> 0 - 1],
     term_types |-> [v \in 0..n |-> 0],
     lex_labels |-> [v \in 0..n |-> 0]]

\* a decision row that does not look at whether the element is done
DecisionRow_IgnoreDone(st, sel, allowed, lab, const, lex) ==
    LET active == StackPeek(st.stack)
        pop == IF pop_with_0 THEN sel = 0 ELSE sel = active
    IN  [push_tokens |-> sel,
         push_mask |-> (~pop) /\ allowed,
         pop_mask |-> pop /\ allowed /\ ~StackIsEmpty(st.stack),
         edge_labels |-> lab,
         constants |-> const,
         lex_labels |-> lex,
         constant_mask |-> pop /\ allowed /\ ~StackIsEmpty(st.stack)]

\* make_decision, lines 146-161: the row of the DecisionBatch once the node
\* with the best masked score (sel) and the verdict of the legality threshold
\* (allowed) are known
DecisionRow(st, sel, allowed, lab, const, lex) ==
    LET active == StackPeek(st.stack)
        not_done == ~StackIsEmpty(st.stack)
        pop == IF pop_with_0 THEN sel = 0 ELSE sel = active
    IN  [push_tokens |-> sel,
         push_mask |-> (~pop) /\ allowed /\ not_done,
         pop_mask |-> pop /\ allowed /\ not_done,
         edge_labels |-> lab,
         constants |-> const,
         lex_labels |-> lex,
         constant_mask |-> pop /\ allowed /\ not_done]

\* make_decision, line 143: the amount taken off the score of a masked node
MaskPenalty == 10000000
\* make_decision, line 145: a best score must lie above this to be allowed
LegalityThreshold == 0 - 1000000
\* the scores the edge model can give a node: below the threshold, ordinary,
\* and larger than the penalty
ScoreValues == {0 - 2000000, 0, 20000000}
\* the score rows of an element with nodes 0..n: one node stands out over
\* the others, which share a lower score, or all nodes score below the
\* threshold
ScoreRows(n) ==
    {[u \in 0..n |-> IF u = v THEN p[1] ELSE p[2]] :
        v \in 0..n,
        p \in {q \in ScoreValues \X ScoreValues : q[2] < q[1] /\ q[1] - q[2] <= 20000000}}
    \cup {[u \in 0..n |-> 0 - 2000000]}

\* BatchedParsingState.parent_mask: the nodes that may be chosen, i.e. the
\* tokens that have no head yet and the designated close choice
ParentMask(st) ==
    [v \in DOMAIN st.heads |->
        \/ (v # 0 /\ st.heads[v] < 0)
        \/ v = (IF pop_with_0 THEN 0 ELSE StackPeek(st.stack))]
\* BatchedParsingState.position_mask: the positions that are the root or a
\* token of the sentence
PositionMask(st, n) == [v \in DOMAIN st.heads |-> v <= n]

\* make_decision, lines 131-141: the mask of the choices that are legal
DecisionMask(st, n) ==
    LET depth == StackDepth(st.stack)
        active_nodes == StackPeek(st.stack)
        close == IF pop_with_0 THEN 0 ELSE active_nodes
    IN  [v \in DOMAIN st.heads |->
            /\ ParentMask(st)[v]
            /\ (v = close => depth > 0)
            /\ PositionMask(st, n)[v]]

\* make_decision, lines 143-144: children_scores - (1-mask)*10_000_000
MaskedScores(st, n, children_scores) ==
    [v \in DOMAIN st.heads |->
        children_scores[v] - (IF DecisionMask(st, n)[v] THEN 0 ELSE MaskPenalty)]

\* make_decision: the row of the DecisionBatch for the scores of one element
MakeDecision(st, n, children_scores, lab, const, lex) ==
    LET masked == MaskedScores(st, n, children_scores)
        selected_nodes == ArgMax(masked)
        vals == masked[selected_nodes]
        allowed_selection == vals > LegalityThreshold
    IN  DecisionRow(st, selected_nodes, allowed_selection, lab, const, lex)

\* step: tensor[index] = (1 - mask) * tensor[index] + mask * value
MaskedAssign(tensor, index, mask, value) ==
    [tensor EXCEPT ![index] = IF mask THEN value ELSE @]

\* step: which children of the active node are pushed
PushAllChildrenMask(active_children, pop_mask) ==
    [j \in 1..Len(active_children) |-> active_children[j] # 0 /\ pop_mask]

\* step
TensorStepResult(st, d) ==
    LET next_active_nodes == StackPeek(st.stack)
        ch == LolAppend(st.children, next_active_nodes, d.push_tokens, d.push_mask)
        active_children == ch.lol[next_active_nodes]
    IN  [stack |-> PopAndPushMultiple(st.stack, active_children, d.pop_mask,
                        PushAllChildrenMask(active_children, d.pop_mask),
                        reverse_push_actions),
         children |-> ch,
         heads |-> MaskedAssign(st.heads, d.push_tokens, d.push_mask, next_active_nodes),
         edge_labels |-> MaskedAssign(st.edge_labels, d.push_tokens, d.push_mask, d.edge_labels),
         constants |-> MaskedAssign(st.constants, next_active_nodes, d.constant_mask, d.constants),
         term_types |-> st.term_types,
         lex_labels |-> MaskedAssign(st.lex_labels, next_active_nodes, d.constant_mask, d.lex_labels)]

\* a push the parent mask allows: a token that has no head yet
TensorLegal(st, d) ==
    d.push_mask => (d.push_tokens # 0 /\ st.heads[d.push_tokens] < 0)

\* ------------------------------------------------------------ the decode loop
\* parse_sentences: output_seq_len = input_seq_len*2 + 1, where the encoded
\* input holds the artificial root and the tokens
OutputSeqLen == (N + 1) * 2 + 1

\* the last operation: its kind, the selected node, the node that was active
\* when it started, and the steps performed before it in the parse
LastOp(op, sel, active) == [op |-> op, sel |-> sel, active |-> active, before |-> steps]

\* the parses have been handed back: retrieve_parses, extract_tree
Returned == last.op = "extract"

\* a reset that keeps the children recorded by the previous parse
FreshParse_KeepChildren(sent) ==
    /\ sentences' = sent
    /\ stack' = InitStack
    /\ sub_stack' = <<>>
    /\ seen' = InitSeen
    /\ heads' = InitHeads(Len(sent))
    /\ children' = [v \in 0..Len(sent) |-> IF v \in DOMAIN children THEN children[v] ELSE <<>>]
    /\ labels' = InitLabels(Len(sent))
    /\ lex_labels' = InitLexLabels(Len(sent))
    /\ supertags' = InitSupertags(Len(sent))
    /\ active_node' = 0
    /\ valid_choices' = 0..Len(sent)
    /\ failed' = FALSE
    /\ state' = InitialState(Len(sent))
    /\ steps' = 0
    /\ illegal' = 0

\* reset_parses / initial_state for a sentence
FreshParse(sent) ==
    /\ sentences' = sent
    /\ stack' = InitStack
    /\ sub_stack' = <<>>
    /\ seen' = InitSeen
    /\ heads' = InitHeads(Len(sent))
    /\ children' = InitChildren(Len(sent))
    /\ labels' = InitLabels(Len(sent))
    /\ lex_labels' = InitLexLabels(Len(sent))
    /\ supertags' = InitSupertags(Len(sent))
    /\ active_node' = 0
    /\ valid_choices' = 0..Len(sent)
    /\ failed' = FALSE
    /\ state' = InitialState(Len(sent))
    /\ steps' = 0
    /\ illegal' = 0

InitParse(sent) ==
    /\ sentences = sent
    /\ stack = InitStack
    /\ sub_stack = <<>>
    /\ seen = InitSeen
    /\ heads = InitHeads(Len(sent))
    /\ children = InitChildren(Len(sent))
    /\ labels = InitLabels(Len(sent))
    /\ lex_labels = InitLexLabels(Len(sent))
    /\ supertags = InitSupertags(Len(sent))
    /\ active_node = 0
    /\ valid_choices = 0..Len(sent)
    /\ failed = FALSE
    /\ state = InitialState(Len(sent))
    /\ steps = 0
    /\ illegal = 0
    /\ last = LastOp("init", 0, 0)

Init ==
    /\ impl \in {"list", "tensor"}
    /\ children_order = "IO"
    /\ pop_with_0 \in BOOLEAN
    /\ reverse_push_actions \in BOOLEAN
    /\ has_constants \in (IF impl = "list" THEN BOOLEAN ELSE {TRUE})
    /\ has_lex_labels \in (IF impl = "list" THEN BOOLEAN ELSE {TRUE})
    /\ \E n \in 1..MaxTokens : InitParse(BlankSentence(n))
    /\ order = <<>>
    /\ budget = MaxIllegal
    /\ batch = NoBatch /\ beam = NoBeam /\ logic = NoLogic

\* the annotation id the scorer selects in the current iteration
Ann == steps % NumAnn

\* one iteration of the decode loop on the list-based transition system: the
\* scorer selects node sel and the annotation id a
Step(sel, a) ==
    /\ impl = "list"
    /\ ~failed
    /\ ~Returned
    /\ steps < OutputSeqLen
    /\ ListStep(sel, AnnLabel(a),
                IF has_constants THEN JoinSupertag(<<AnnFragment(a), AnnType(a)>>) ELSE None,
                IF has_lex_labels THEN AnnLex(a) ELSE None)
    /\ steps' = steps + 1
    /\ illegal' = illegal + (IF stack = <<>> \/ IsValidSelection(sel) THEN 0 ELSE 1)
    /\ illegal' <= budget
    /\ last' = LastOp(StepKind(sel), sel, ActiveNode(stack))
    /\ UNCHANGED <<cfgvars, loopvars, sentences, state, order>>

\* one iteration of the decode loop on the tensor-based transition system: the
\* edge model gives the nodes the scores children_scores
TStep(children_scores, a) ==
    LET d == MakeDecision(state, N, children_scores, a, a, a)
        sel == d.push_tokens
        allowed == MaskedScores(state, N, children_scores)[sel] > LegalityThreshold
        new == TensorStepResult(state, d)
        overflow == \/ (d.push_mask /\ state.children.ptr[StackPeek(state.stack)] >= MaxLen(N))
                    \/ StackDepth(new.stack) > StackCapacity(N)
    IN  /\ impl = "tensor"
        /\ ~failed
        /\ ~Returned
        /\ steps < OutputSeqLen
        /\ IF overflow
           THEN failed' = TRUE /\ UNCHANGED state
           ELSE state' = new /\ UNCHANGED failed
        /\ steps' = steps + 1
        /\ illegal' = IF StackIsEmpty(state.stack) THEN illegal
                       ELSE illegal + (IF allowed /\ TensorLegal(state, d) THEN 0 ELSE 1)
        /\ illegal' <= budget
        /\ last' = LastOp(IF d.push_mask THEN "attach" ELSE IF d.pop_mask THEN "close" ELSE "none",
                          sel, StackPeek(state.stack))
        /\ UNCHANGED <<cfgvars, loopvars, sentences, stack, sub_stack, seen, heads, children,
                       labels, lex_labels, supertags, active_node, valid_choices, order>>

\* the transition system is given the next sentence: reset_parses, initial_state
Reset(n) ==
    /\ FreshParse(BlankSentence(n))
    /\ last' = LastOp("reset", 0, 0)
    /\ UNCHANGED <<cfgvars, loopvars, order>>

\* retrieve_parses of the list-based transition system, called once the
\* decode loop has ended: the assertion that every stack is empty, then the
\* sentences with the recorded annotation
RetrieveParses ==
    /\ impl = "list"
    /\ ~failed /\ ~Returned
    /\ steps > 0
    /\ (stack = <<>> \/ steps >= OutputSeqLen)
    /\ IF stack = <<>>
       THEN /\ last' = LastOp("extract", 0, 0)
            /\ UNCHANGED failed
       ELSE /\ last' = LastOp("error", 0, ActiveNode(stack))
            /\ failed' = TRUE
    /\ UNCHANGED <<cfgvars, loopvars, sentences, stack, sub_stack, seen, heads, children,
                   labels, lex_labels, supertags, active_node, valid_choices,
                   state, order, steps, illegal>>

\* parse_sentences, lines 553-556: the loop is left when the element is
\* complete or after output_seq_len iterations, and extract_tree is called on
\* the parsing state
ExtractTree ==
    /\ impl = "tensor"
    /\ ~failed /\ ~Returned
    /\ steps > 0
    /\ (StackIsEmpty(state.stack) \/ steps = OutputSeqLen)
    /\ last' = LastOp("extract", 0, StackPeek(state.stack))
    /\ UNCHANGED <<cfgvars, loopvars, sentences, listvars, state, order, steps, illegal>>

Next ==
    \/ RetrieveParses
    \/ ExtractTree
    \/ \E sel \in Nodes : Step(sel, Ann)
    \/ \E children_scores \in ScoreRows(N) : TStep(children_scores, Ann)
    \/ \E n \in 1..MaxTokens : Reset(n)

Spec == Init /\ [][Next]_vars

\* ------------------------------------ the decode loop up to its iteration cap
\* greedy decoding with a scorer that may make a selection that is not legal
\* in every iteration of the loop
InitCap ==
    /\ impl = "tensor"
    /\ children_order = "IO"
    /\ pop_with_0 \in BOOLEAN
    /\ reverse_push_actions \in BOOLEAN
    /\ has_constants = TRUE
    /\ has_lex_labels = TRUE
    /\ \E n \in 1..MaxTokens : InitParse(BlankSentence(n))
    /\ order = <<>>
    /\ budget = 2 * (MaxTokens + 1) + 1
    /\ batch = NoBatch /\ beam = NoBeam /\ logic = NoLogic

NextCap ==
    \/ ExtractTree
    \/ \E children_scores \in ScoreRows(N) : TStep(children_scores, Ann)
    \/ \E n \in 1..MaxTokens : Reset(n)

SpecCap == InitCap /\ [][NextCap]_vars

\* ------------------------------------------------ replaying a gold sequence
InitGold ==
    /\ impl = "list"
    /\ children_order \in {"LR", "RL", "IO"}
    /\ pop_with_0 \in BOOLEAN
    /\ reverse_push_actions \in BOOLEAN
    /\ has_constants = TRUE
    /\ has_lex_labels = TRUE
    /\ budget = 0
    /\ batch = NoBatch /\ beam = NoBeam /\ logic = NoLogic
    /\ \E n \in 1..MaxGoldTokens : \E sent \in GoldSentences(n) :
          /\ InitParse(sent)
          /\ order = Tail(GetOrder(sent))

\* the next gold decision goes through get_additional_choices and
\* additional_choices_to_scores into step
GoldStep ==
    /\ order # <<>>
    /\ ~failed
    /\ LET d == Head(order)
           scores == AdditionalChoicesToScores(GetAdditionalChoices(d))
       IN  /\ ListStep(d.position,
                       ScoresToSelection(scores, "edge_labels"),
                       ScoresToSelection(scores, "constants"),
                       ScoresToSelection(scores, "lex_labels"))
           /\ last' = LastOp(StepKind(d.position), d.position, ActiveNode(stack))
           /\ illegal' = illegal + (IF stack = <<>> \/ IsValidSelection(d.position) THEN 0 ELSE 1)
    /\ order' = Tail(order)
    /\ steps' = steps + 1
    /\ UNCHANGED <<cfgvars, loopvars, sentences, state>>

NextGold == GoldStep

SpecGold == InitGold /\ [][NextGold]_vars

\* ------------------------------------------------------------------ get_order
\* the annotated sentences get_order is called on: every tree over n tokens,
\* with the first token labelled IGNORE or not
OrderSentences(n) ==
    {[j \in 1..n |-> GoldEntry(h[j], j, j \in ig)] : h \in TreeHeads(n), ig \in SUBSET {1}}

InitOrder ==
    /\ impl \in {"list", "tensor"}
    /\ children_order \in {"LR", "RL", "IO"}
    /\ pop_with_0 \in BOOLEAN
    /\ reverse_push_actions \in BOOLEAN
    /\ has_constants = TRUE
    /\ has_lex_labels = TRUE
    /\ budget = 0
    /\ batch = NoBatch /\ beam = NoBeam /\ logic = NoLogic
    /\ \E n \in 1..MaxOrderTokens : \E sent \in OrderSentences(n) : InitParse(sent)
    /\ order = <<>>

\* get_order is called on the sentence
GetOrderCall ==
    /\ last.op = "init"
    /\ order' = GetOrder(sentences)
    /\ last' = LastOp("get_order", 0, 0)
    /\ UNCHANGED <<cfgvars, loopvars, sentences, listvars, state, steps, illegal>>

NextOrder == GetOrderCall

SpecOrder == InitOrder /\ [][NextOrder]_vars

\* ------------------------------------------------- a batch of several elements
\* ltl.py keeps one list per batch element (self.stack[i], self.heads[i], ...);
\* the fields of element i, with the values step returned for it
ListRow(n) ==
    [stack |-> InitStack, sub_stack |-> <<>>, seen |-> InitSeen,
     heads |-> InitHeads(n), children |-> InitChildren(n), labels |-> InitLabels(n),
     lex_labels |-> InitLexLabels(n), supertags |-> InitSupertags(n),
     active_node |-> 0, valid_choices |-> 0..n]

\* step, lines 168-183, for the element with n tokens
RowNextChoices(stk, sn, n) ==
    (IF stk = <<>> THEN {} ELSE IF pop_with_0 THEN {0} ELSE {Last(stk)})
        \cup {child \in 1..n : child \notin sn}

\* step, lines 136-186: the body of the loop for one element e with n tokens;
\* raised tells that the assertion of line 144 has fired
ListRowStep(e, n, sel, lab, st, lx) ==
    IF e.stack = <<>>
    THEN [row |-> [e EXCEPT !.active_node = 0, !.valid_choices = {}], raised |-> FALSE]
    ELSE IF (sel \in e.seen /\ ~pop_with_0) \/ (sel = 0 /\ pop_with_0)
    THEN LET popped == Last(e.stack)
             rest == ButLast(e.stack)
             stk == FlushSubStack(rest, e.sub_stack)
         IN  IF ~pop_with_0 /\ popped # sel
             THEN [row |-> [e EXCEPT !.stack = rest], raised |-> TRUE]
             ELSE [row |-> [e EXCEPT
                              !.supertags = CloseSupertags(e.supertags, popped, st),
                              !.lex_labels = CloseLexLabels(e.lex_labels, popped, lx),
                              !.stack = stk,
                              !.sub_stack = <<>>,
                              !.seen = e.seen \cup {sel},
                              !.active_node = ActiveNode(stk),
                              !.valid_choices = RowNextChoices(stk, e.seen \cup {sel}, n)],
                   raised |-> FALSE]
    ELSE [row |-> [e EXCEPT
                     !.heads = AttachHeads(e.heads, sel, Last(e.stack)),
                     !.children = AttachChildren(e.children, sel, Last(e.stack)),
                     !.labels = AttachLabels(e.labels, sel, lab),
                     !.sub_stack = AttachSubStack(e.sub_stack, sel),
                     !.seen = e.seen \cup {sel},
                     !.active_node = ActiveNode(e.stack),
                     !.valid_choices = RowNextChoices(e.stack, e.seen \cup {sel}, n)],
          raised |-> FALSE]

\* parse_sentences, lines 464-465 and 497: INF * (1 - input_mask) is taken off
\* the scores of the positions behind the end of the sentence
\* (INF is 10e10 in the source; 2000000000 is what 32-bit integers hold and,
\* like it, exceeds every score by more than the penalty of make_decision)
InputMaskINF == 2000000000
PadScores(children_scores, n, max_n) ==
    [v \in 0..max_n |-> IF v <= n THEN children_scores[v] ELSE 20000000 - InputMaskINF]

\* make_decision and step of dfs_children_first.py for one row of a batch
\* whose longest sentence has max_n tokens; raised tells that the children
\* list or the stack has overflowed
TensorRowStep(st, n, max_n, children_scores, a) ==
    LET d == MakeDecision(st, n, PadScores(children_scores, n, max_n), a, a, a)
        new == TensorStepResult(st, d)
        overflow == \/ (d.push_mask /\ st.children.ptr[StackPeek(st.stack)] >= MaxLen(max_n))
                    \/ StackDepth(new.stack) > StackCapacity(max_n)
    IN  IF overflow THEN [row |-> st, raised |-> TRUE]
        ELSE [row |-> new, raised |-> FALSE]

\* the step of element i of batch b on its input inp[i]: the selected node
\* (list) or the score row (tensor), and the annotation id
ElementStep(b, i, inp) ==
    IF impl = "list"
    THEN ListRowStep(b.rows[i], b.n[i], inp[i].sel, AnnLabel(inp[i].ann),
            IF has_constants
            THEN JoinSupertag(<<AnnFragment(inp[i].ann), AnnType(inp[i].ann)>>) ELSE None,
            IF has_lex_labels THEN AnnLex(inp[i].ann) ELSE None)
    ELSE TensorRowStep(b.rows[i], b.n[i], b.max_n, inp[i].scores, inp[i].ann)

\* a batch: the lengths of its sentences, the longest length, the rows, the
\* iterations performed, whether a step has raised, and the trees returned
NewBatch(ns) ==
    LET max_n == CHOOSE m \in {ns[i] : i \in DOMAIN ns} : \A i \in DOMAIN ns : ns[i] <= m
    IN  [n |-> ns,
         max_n |-> max_n,
         rows |-> [i \in DOMAIN ns |->
                     IF impl = "list" THEN ListRow(ns[i]) ELSE InitialState(max_n)],
         steps |-> 0,
         raised |-> FALSE,
         trees |-> <<>>]

\* the stack of a row
RowStack(r) == r.stack

\* a step over the batch that reaches the first element only
BatchApply_FirstOnly(b, inp) ==
    [b EXCEPT !.rows = [i \in DOMAIN b.rows |->
                          IF i = 1 THEN ElementStep(b, i, inp).row ELSE b.rows[i]],
              !.steps = b.steps + 1]

\* a step over the batch that leaves every element as it is once some element
\* of the batch is complete
BatchApply_FreezeOnDone(b, inp) ==
    [b EXCEPT !.rows = [i \in DOMAIN b.rows |->
                          IF \E j \in DOMAIN b.rows : RowStack(b.rows[j]) = <<>>
                          THEN b.rows[i] ELSE ElementStep(b, i, inp).row],
              !.steps = b.steps + 1]

\* step over the batch: the elements in turn (ltl.py, for i in
\* range(batch_size)) or all at once (dfs_children_first.py); once an element
\* has raised, the elements behind it are not reached
BatchApply(b, inp) ==
    LET res == [i \in DOMAIN b.rows |-> ElementStep(b, i, inp)]
        RaisedBefore(i) == \E j \in DOMAIN b.rows : j < i /\ res[j].raised
        AnyRaised == \E j \in DOMAIN b.rows : res[j].raised
    IN  [b EXCEPT
            !.rows = [i \in DOMAIN b.rows |->
                        IF impl = "list"
                        THEN (IF RaisedBefore(i) THEN b.rows[i] ELSE res[i].row)
                        ELSE (IF AnyRaised THEN b.rows[i] ELSE res[i].row)],
            !.steps = b.steps + 1,
            !.raised = AnyRaised]

\* the selection of element i is one the valid-choice row (list) or the mask
\* and the threshold (tensor) allow
InputIsLegal(b, i, inp) ==
    IF RowStack(b.rows[i]) = <<>> THEN TRUE
    ELSE IF impl = "list" THEN inp[i].sel \in b.rows[i].valid_choices
    ELSE LET padded == PadScores(inp[i].scores, b.n[i], b.max_n)
             d == MakeDecision(b.rows[i], b.n[i], padded, 0, 0, 0)
         IN  /\ MaskedScores(b.rows[i], b.n[i], padded)[d.push_tokens] > LegalityThreshold
             /\ TensorLegal(b.rows[i], d)

\* the inputs the scorer can give an element with n tokens in iteration t
Inputs(n, t) ==
    IF impl = "list"
    THEN {[sel |-> v, scores |-> <<>>, ann |-> a] : v \in 0..n, a \in {t % NumAnn}}
    ELSE {[sel |-> 0, scores |-> r, ann |-> a] : r \in ScoreRows(n), a \in {t % NumAnn}}

\* every element of the batch is complete
AllComplete(b) == \A i \in DOMAIN b.rows : RowStack(b.rows[i]) = <<>>

\* extract_tree / retrieve_parses: the recorded annotation of the tokens
RowTree(r, n) ==
    IF impl = "list"
    THEN [heads |-> r.heads, labels |-> r.labels,
          supertags |-> r.supertags, lex_labels |-> r.lex_labels]
    ELSE [heads |-> [v \in 1..n |-> r.heads[v]],
          labels |-> [v \in 1..n |-> r.edge_labels[v]],
          supertags |-> [v \in 1..n |-> r.constants[v]],
          lex_labels |-> [v \in 1..n |-> r.lex_labels[v]]]

\* parse_sentences on a batch of two sentences (pair) and, next to it, on a
\* batch that holds the first of them alone (solo) and is stepped as often;
\* with copies the two sentences of the pair are the same sentence and the
\* scorer, being deterministic, gives equal elements equal inputs
InitBatch ==
    /\ impl \in {"list", "tensor"}
    /\ children_order = "IO"
    /\ pop_with_0 \in BOOLEAN
    /\ reverse_push_actions \in BOOLEAN
    /\ has_constants = TRUE
    /\ has_lex_labels = TRUE
    /\ budget = MaxIllegal
    /\ InitParse(BlankSentence(1))
    /\ order = <<>>
    /\ beam = NoBeam /\ logic = NoLogic
    /\ \E copies \in BOOLEAN, n1 \in 1..MaxTokens, n2 \in 1..MaxTokens :
          /\ copies => n2 = n1
          /\ batch = [copies |-> copies,
                      pair |-> NewBatch(<<n1, n2>>),
                      solo |-> NewBatch(<<n1>>),
                      illegal |-> 0]

\* the iterations the loop over the pair performs at most
BatchOutputSeqLen == (batch.pair.max_n + 1) * 2 + 1

\* one iteration of the loop: every element is given its input
BatchStep ==
    /\ ~batch.pair.raised /\ ~batch.solo.raised
    /\ batch.pair.trees = <<>>
    /\ batch.pair.steps < BatchOutputSeqLen
    /\ ~AllComplete(batch.pair)
    /\ \E i1 \in Inputs(batch.pair.n[1], batch.pair.steps),
          i2 \in Inputs(batch.pair.n[2], batch.pair.steps + (IF batch.copies THEN 0 ELSE 1)) :
          LET inp == <<i1, i2>>
              bad == Cardinality({i \in 1..2 : ~InputIsLegal(batch.pair, i, inp)})
          IN  /\ (batch.copies /\ batch.pair.rows[1] = batch.pair.rows[2]) => i2 = i1
              /\ batch.illegal + bad <= budget
              /\ batch' = [batch EXCEPT
                              !.pair = BatchApply(batch.pair, inp),
                              !.solo = BatchApply(batch.solo, <<i1>>),
                              !.illegal = batch.illegal + bad]
    /\ UNCHANGED <<cfgvars, sentences, listvars, state, order, steps, illegal, last, beam, logic>>

\* the loop has ended: the trees of all elements are returned
BatchExtract ==
    /\ ~batch.pair.raised /\ ~batch.solo.raised
    /\ batch.pair.trees = <<>>
    /\ (AllComplete(batch.pair) \/ batch.pair.steps = BatchOutputSeqLen)
    /\ batch' = [batch EXCEPT
                    !.pair.trees = [i \in 1..2 |-> RowTree(batch.pair.rows[i], batch.pair.n[i])],
                    !.solo.trees = <<RowTree(batch.solo.rows[1], batch.solo.n[1])>>]
    /\ UNCHANGED <<cfgvars, sentences, listvars, state, order, steps, illegal, last, beam, logic>>

NextBatch == BatchStep \/ BatchExtract

SpecBatch == InitBatch /\ [][NextBatch]_vars

\* ------------------------------------------------------------- beam search
\* beam_search, line 633: the edge scores are log-probabilities. The rows the
\* scorer can give a hypothesis of a sentence of n tokens: one node stands
\* out over the others, which score alike, or no node scores above the
\* legality threshold
LowRow(n) == [u \in 0..n |-> 0 - 2000000]
BeamScoreRows(n) ==
    {[u \in 0..n |-> IF u = v THEN 0 - 1 ELSE 0 - 2] : v \in 0..n} \cup {LowRow(n)}

\* ParsingState: the parse of one hypothesis, its accumulated score and the
\* handle of its decoder state
Hypothesis(st, score, handle) == [st |-> st, score |-> score, decoder_state |-> handle]
\* ParsingState.is_complete, ParsingState.active_node
HypIsComplete(h) == StackIsEmpty(h.st.stack)
HypActiveNode(h) == StackPeek(h.st.stack)

\* the nodes of S, best score first and the lower index first among equals
RECURSIVE BestFirst(_, _)
BestFirst(S, row) ==
    IF S = {} THEN <<>>
    ELSE LET v == CHOOSE x \in S :
                    \A u \in S : row[u] < row[x] \/ (row[u] = row[x] /\ x <= u)
         IN  <<v>> \o BestFirst(S \ {v}, row)

\* the first k entries of a sequence
Take(q, k) == SubSeq(q, 1, IF Len(q) < k THEN Len(q) ELSE k)

\* top_k_decision: the k best choices the mask and the legality threshold
\* allow, push and close alike, best first; a complete hypothesis is not
\* expanded
TopKDecision(h, n, children_scores, k, a) ==
    LET masked == MaskedScores(h.st, n, children_scores)
        legal == {v \in 0..n : DecisionMask(h.st, n)[v] /\ masked[v] > LegalityThreshold}
        best == Take(BestFirst(legal, masked), k)
    IN  IF HypIsComplete(h) THEN <<>>
        ELSE [j \in 1..Len(best) |->
                [position |-> best[j], score |-> masked[best[j]], ann |-> a]]

\* step(parsing_state, decision, in_place=False): a new hypothesis, the
\* parent is left as it is
HypStep(h, decision) ==
    LET d == DecisionRow(h.st, decision.position, TRUE, decision.ann, decision.ann, decision.ann)
    IN  Hypothesis(TensorStepResult(h.st, d), h.score + decision.score, h.decoder_state)

\* a gathering that expands every hypothesis in step 0 as well
RECURSIVE GatherFrom_EverySlot(_, _, _, _, _, _, _)
GatherFrom_EverySlot(i, slots, n, rows, k, step, a) ==
    IF i > Len(slots) THEN <<>>
    ELSE LET parsing_state == [slots[i] EXCEPT !.decoder_state = <<step, i>>]
             top_k == TopKDecision(parsing_state, n, rows[i], k, a)
         IN  [j \in 1..Len(top_k) |->
                [decision |-> top_k[j], parsing_state |-> parsing_state, slot |-> i]]
                \o GatherFrom_EverySlot(i + 1, slots, n, rows, k, step, a)

\* beam_search, lines 678-691: the candidates of a sentence, gathered from its
\* hypotheses in the order of their slots, from the first slot only in step 0;
\* line 681 hands hypothesis i the decoder state of row i of this step
RECURSIVE GatherFrom(_, _, _, _, _, _, _)
GatherFrom(i, slots, n, rows, k, step, a) ==
    IF i > Len(slots) THEN <<>>
    ELSE LET parsing_state == [slots[i] EXCEPT !.decoder_state = <<step, i>>]
             top_k == TopKDecision(parsing_state, n, rows[i], k, a)
             mine == [j \in 1..Len(top_k) |->
                        [decision |-> top_k[j], parsing_state |-> parsing_state, slot |-> i]]
         IN  IF step = 0 THEN mine
             ELSE mine \o GatherFrom(i + 1, slots, n, rows, k, step, a)

\* line 681: the hypotheses after the loop over them has visited them
Visited(slots, step) ==
    [i \in 1..Len(slots) |->
        IF step = 0 /\ i > 1 THEN slots[i]
        ELSE [slots[i] EXCEPT !.decoder_state = <<step, i>>]]

\* line 694: the key of a candidate
CombinedScore(c) == c.decision.score + c.parsing_state.score

\* the position of the first of the largest entries of a sequence of numbers
FirstMax(keys) ==
    CHOOSE j \in 1..Len(keys) :
        /\ \A i \in 1..Len(keys) : keys[i] <= keys[j]
        /\ \A i \in 1..(j - 1) : keys[i] < keys[j]
\* the position of the last of the largest entries
LastMax(keys) ==
    CHOOSE j \in 1..Len(keys) :
        /\ \A i \in 1..Len(keys) : keys[i] <= keys[j]
        /\ \A i \in (j + 1)..Len(keys) : keys[i] < keys[j]

\* a sequence without its entry j
Without(q, j) == SubSeq(q, 1, j - 1) \o SubSeq(q, j + 1, Len(q))

\* a selection of the k largest that prefers the later of equal candidates
RECURSIVE NLargest_LaterOnTies(_, _)
NLargest_LaterOnTies(k, cands) ==
    IF k = 0 \/ cands = <<>> THEN <<>>
    ELSE LET j == LastMax([i \in 1..Len(cands) |-> CombinedScore(cands[i])])
         IN  <<cands[j]>> \o NLargest_LaterOnTies(k - 1, Without(cands, j))

\* heapq.nlargest(k, all_decisions_for_sentence, key=...), line 694: the k
\* candidates with the largest keys, largest first, the earlier of equal
\* candidates first
RECURSIVE NLargest(_, _)
NLargest(k, cands) ==
    IF k = 0 \/ cands = <<>> THEN <<>>
    ELSE LET j == FirstMax([i \in 1..Len(cands) |-> CombinedScore(cands[i])])
         IN  <<cands[j]>> \o NLargest(k - 1, Without(cands, j))

\* beam_search, lines 695-701: the slots and the active nodes of a sentence
\* after the survivors have been stepped; a slot no survivor is written to
\* keeps its hypothesis and reports active node 0
Survivors(slots, top_k_decisions) ==
    [j \in 1..Len(slots) |->
        IF j <= Len(top_k_decisions)
        THEN HypStep(top_k_decisions[j].parsing_state, top_k_decisions[j].decision)
        ELSE slots[j]]
NextActiveNodes(new_slots, top_k_decisions) ==
    [j \in 1..Len(new_slots) |->
        IF j <= Len(top_k_decisions) THEN HypActiveNode(new_slots[j]) ELSE 0]

\* beam_search, lines 706-710: the decoder states handed to
\* set_with_full_states, one per row
InstalledDecoderStates(slots) == [j \in 1..Len(slots) |-> slots[j].decoder_state]

\* beam_search, line 719: max(sentence, key=score), the first of the best
BestState(slots) == slots[FirstMax([j \in 1..Len(slots) |-> slots[j].score])]

\* parse_sentences on the same sentence, next to the beam search: the parse,
\* the decision applied last and the iterations performed
GreedyTwin(n) == [st |-> InitialState(n), decision |-> <<>>, steps |-> 0]

\* the decision a row of make_decision applies, as (position, annotation)
AppliedDecision(d) ==
    IF d.push_mask \/ d.pop_mask THEN <<d.push_tokens, d.edge_labels>> ELSE <<>>

\* one iteration of parse_sentences on the twin
GreedyStep(g, n, children_scores, a) ==
    LET d == MakeDecision(g.st, n, children_scores, a, a, a)
    IN  [st |-> TensorStepResult(g.st, d),
         decision |-> AppliedDecision(d),
         steps |-> g.steps + 1]

\* the context features a transition system can assume to be greedy-safe and
\* a context provider can condition on
Features == {"siblings", "children_labels"}
\* a context provider, or its absence (None)
NoProvider == [present |-> FALSE, conditions_on |-> {}]
Providers == {NoProvider} \cup {[present |-> TRUE, conditions_on |-> c] : c \in SUBSET Features}

\* a union that leaves out the tagger context provider
ConditionOn_ContextOnly(b) ==
    IF b.context_provider.present THEN b.context_provider.conditions_on ELSE {}

\* beam_search, lines 600-604: the features the context provider and the
\* tagger context provider condition on
ConditionOn(b) ==
    (IF b.context_provider.present THEN b.context_provider.conditions_on ELSE {})
        \cup (IF b.tagger_context_provider.present
              THEN b.tagger_context_provider.conditions_on ELSE {})

\* beam_search on one sentence of n tokens with k hypotheses, lines 589-597
InitBeam ==
    /\ impl = "tensor"
    /\ children_order = "IO"
    /\ pop_with_0 \in BOOLEAN
    /\ reverse_push_actions = FALSE
    /\ has_constants = TRUE
    /\ has_lex_labels = TRUE
    /\ budget = MaxIllegal
    /\ InitParse(BlankSentence(1))
    /\ order = <<>>
    /\ batch = NoBatch /\ logic = NoLogic
    /\ \E k \in 1..MaxBeam, n \in 1..MaxTokens, greedy_ok \in SUBSET Features,
          cp \in Providers, tcp \in Providers :
          beam = [phase |-> "setup",
                  assumes_greedy_ok |-> greedy_ok,
                  context_provider |-> cp,
                  tagger_context_provider |-> tcp,
                  k |-> k,
                  n |-> n,
                  parsing_states |-> [p \in 1..k |-> Hypothesis(InitialState(n), 0, <<0 - 1, p>>)],
                  next_active_nodes |-> [p \in 1..k |-> 0],
                  step |-> 0,
                  low |-> 0,
                  candidates |-> <<>>,
                  decision |-> <<>>,
                  starved |-> FALSE,
                  tree |-> <<>>,
                  greedy |-> GreedyTwin(n)]

\* beam_search, lines 599-608: the configuration error is raised when the
\* transition system assumes greedy-safe a feature that is conditioned on;
\* otherwise the loop is entered, which does not read the three sets again
BeamConfigCheck ==
    /\ beam.phase = "setup"
    /\ beam' = IF beam.assumes_greedy_ok \cap ConditionOn(beam) # {}
               THEN [beam EXCEPT !.phase = "raised"]
               ELSE [beam EXCEPT !.phase = "decode",
                                 !.assumes_greedy_ok = {},
                                 !.context_provider = NoProvider,
                                 !.tagger_context_provider = NoProvider]
    /\ UNCHANGED <<cfgvars, sentences, listvars, state, order, steps, illegal, last, batch, logic>>

\* the iterations the loop performs at most
BeamOutputSeqLen == (beam.n + 1) * 2 + 1

\* every hypothesis of the sentence is complete
BeamAllComplete == \A j \in 1..beam.k : HypIsComplete(beam.parsing_states[j])

\* the twin is asked about the same parse at the same node as the hypothesis
\* in slot 1
SameQuery ==
    /\ beam.greedy.st = beam.parsing_states[1].st
    /\ StackPeek(beam.greedy.st.stack) = beam.next_active_nodes[1]

\* one iteration of the loop, lines 610-715; with k = 1 the twin performs its
\* iteration too, and the scorer, being deterministic, gives it the row of
\* slot 1 when it is asked the same; the rows without a score above the
\* threshold are counted against the budget
BeamStep ==
    /\ beam.phase = "decode"
    /\ beam.tree = <<>>
    /\ beam.step < BeamOutputSeqLen
    /\ ~BeamAllComplete
    /\ \E rows \in [1..beam.k -> BeamScoreRows(beam.n)], grow \in BeamScoreRows(beam.n) :
          LET a == beam.step % NumAnn
              all_decisions_for_sentence ==
                  GatherFrom(1, beam.parsing_states, beam.n, rows, beam.k, beam.step, a)
              top_k_decisions == NLargest(beam.k, all_decisions_for_sentence)
              new_slots == Survivors(Visited(beam.parsing_states, beam.step), top_k_decisions)
              twin == beam.k = 1 /\ ~StackIsEmpty(beam.greedy.st.stack)
                          /\ beam.greedy.steps < BeamOutputSeqLen
              low == Cardinality({j \in 1..beam.k : rows[j] = LowRow(beam.n)})
                        + (IF grow # rows[1] /\ grow = LowRow(beam.n) THEN 1 ELSE 0)
          IN  /\ beam.low + low <= budget
              /\ (twin /\ SameQuery) => grow = rows[1]
              /\ ~twin => grow = rows[1]
              /\ beam' = [beam EXCEPT
                    !.parsing_states = new_slots,
                    !.next_active_nodes = NextActiveNodes(new_slots, top_k_decisions),
                    !.step = beam.step + 1,
                    !.low = beam.low + low,
                    !.candidates = all_decisions_for_sentence,
                    !.decision = IF top_k_decisions = <<>> THEN <<>>
                                 ELSE <<top_k_decisions[1].decision.position,
                                        top_k_decisions[1].decision.ann>>,
                    !.starved = beam.starved \/ all_decisions_for_sentence = <<>>,
                    !.greedy = IF twin THEN GreedyStep(beam.greedy, beam.n, grow, a)
                               ELSE beam.greedy]
    /\ UNCHANGED <<cfgvars, sentences, listvars, state, order, steps, illegal, last, batch, logic>>

\* the loop has ended, lines 717-722: the tree of the best hypothesis
BeamExtract ==
    /\ beam.phase = "decode"
    /\ beam.tree = <<>>
    /\ (beam.step = BeamOutputSeqLen \/ BeamAllComplete)
    /\ beam' = [beam EXCEPT !.tree = <<RowTree(BestState(beam.parsing_states).st, beam.n)>>]
    /\ UNCHANGED <<cfgvars, sentences, listvars, state, order, steps, illegal, last, batch, logic>>

NextBeam == BeamConfigCheck \/ BeamStep \/ BeamExtract

SpecBeam == InitBeam /\ [][NextBeam]_vars

\* ------------------------------------------------------------ gather_context
\* get_parent: heads[node-1] of the Python list of heads
GetParent(hd, node) == hd[PyIndex(hd, node - 1)]

\* list.remove: the list without the first occurrence of x
RemoveFirst(q, x) ==
    IF \E j \in 1..Len(q) : q[j] = x
    THEN Without(q, CHOOSE j \in 1..Len(q) : q[j] = x /\ \A i \in 1..(j - 1) : q[i] # x)
    ELSE q

\* get_siblings: the children of the parent of the node, without the node
GetSiblings(ch, hd, node) == RemoveFirst(ch[GetParent(hd, node)], node)

\* the largest of the lengths of the lists of a sequence of lists
MaxLength(lists) ==
    CHOOSE m \in {Len(lists[i]) : i \in 1..Len(lists)} :
        \A i \in 1..Len(lists) : Len(lists[i]) <= m

\* a padded tensor as wide as the longest list and no wider
PadTensor_Tight(lists) ==
    [i \in 1..Len(lists) |->
        [j \in 1..MaxLength(lists) |-> IF j <= Len(lists[i]) THEN lists[i][j] ELSE 0]]

\* _gather_context, lines 176-179 and 182-185: torch.zeros((batch_size,
\* max(1, longest list))) with the entries of each list written from the left
PadTensor(lists) ==
    LET longest == MaxLength(lists)
        width == IF longest < 1 THEN 1 ELSE longest
    IN  [i \in 1..Len(lists) |->
            [j \in 1..width |-> IF j <= Len(lists[i]) THEN lists[i][j] ELSE 0]]

\* tensor != 0
NonZeroMask(tensor) ==
    [i \in 1..Len(tensor) |-> [j \in 1..Len(tensor[i]) |-> tensor[i][j] # 0]]

\* _gather_context, lines 162-187, for the elements rows (their heads and
\* children) and their active nodes
GatherContext(rows, active_nodes) ==
    LET grandparents == [i \in 1..Len(rows) |-> GetParent(rows[i].heads, active_nodes[i])]
        siblings == [i \in 1..Len(rows) |->
                        GetSiblings(rows[i].children, rows[i].heads, active_nodes[i])]
        other_children == [i \in 1..Len(rows) |-> rows[i].children[active_nodes[i]]]
        sibling_tensor == PadTensor(siblings)
        children_tensor == PadTensor(other_children)
    IN  [parents |-> grandparents,
         siblings |-> sibling_tensor,
         siblings_mask |-> NonZeroMask(sibling_tensor),
         children |-> children_tensor,
         children_mask |-> NonZeroMask(children_tensor)]

\* ================================================================== claims

\* ------------------------------------------------------------------------ C1
TokenRoundTrips(j) ==
    /\ heads[j] = sentences[j].head
    /\ labels[j] = sentences[j].label
    /\ SplitSupertag(supertags[j]) = <<sentences[j].fragment, sentences[j].typ>>
    /\ lex_labels[j] = sentences[j].lexlabel

\* no token of the sentence is labelled IGNORE
FullyAnnotated == \A j \in Tokens : sentences[j].label # IGNORE

\* C1: once every decision of get_order(sentence) has gone through step, the
\* stack is empty and the recorded heads, edge labels, supertags and lexical
\* labels are those of the gold sentence, for every token. (Stated for the
\* sentences in which every token is part of the tree.)
C1_RoundTrip ==
    (order = <<>> /\ FullyAnnotated) =>
        (stack = <<>> /\ ~failed /\ \A j \in Tokens : TokenRoundTrips(j))

\* what the replay does reproduce: heads, edge labels and supertags
C1_RoundTripWithoutLexLabels ==
    (order = <<>> /\ FullyAnnotated) =>
        /\ stack = <<>> /\ ~failed
        /\ \A j \in Tokens :
              /\ heads[j] = sentences[j].head
              /\ labels[j] = sentences[j].label
              /\ SplitSupertag(supertags[j]) = <<sentences[j].fragment, sentences[j].typ>>
              /\ lex_labels[j] = "_"

\* ------------------------------------------------------------------------ C2
\* the stack of the implementation in use
CurStack == IF impl = "list" THEN stack ELSE state.stack

\* C2: in a parse of an n-token sentence in which every selection was legal,
\* the stack is empty once 2n+1 steps have been performed, and no assertion
\* or capacity check has fired.
C2_TerminationBound ==
    Legal => (~failed /\ (steps >= 2 * N + 1 => CurStack = <<>>))

\* C2 witness: a legal parse that needs all 2n+1 steps has just finished.
C2_Witness ==
    /\ Legal /\ N = MaxTokens /\ steps = 2 * N + 1 /\ CurStack = <<>>
    /\ last.op = "close" /\ impl = "list"

\* ------------------------------------------------------------------------ C3
\* how often token j is the target of a push decision of the sequence
PushCount(seq, j) == Cardinality({k \in 1..Len(seq) : ~seq[k].pop /\ seq[k].position = j})
\* token j is the target of some decision of the sequence
Occurs(seq, j) == \E k \in 1..Len(seq) : seq[k].position = j

\* token j and all the tokens between it and the root are not labelled IGNORE
RECURSIVE InTree(_, _, _)
InTree(sent, j, fuel) ==
    IF j = 0 THEN TRUE
    ELSE IF fuel = 0 \/ sent[j].label = IGNORE THEN FALSE
    ELSE InTree(sent, sent[j].head, fuel - 1)

\* C3 as stated: every token not labelled IGNORE is the target of exactly one
\* push decision of get_order's output, and a token labelled IGNORE is the
\* target of no decision.
C3_PushedExactlyOnce ==
    \A j \in Tokens :
        IF sentences[j].label # IGNORE
        THEN PushCount(GetOrder(sentences), j) = 1
        ELSE ~Occurs(GetOrder(sentences), j)

\* C3 amended: every token that is not labelled IGNORE and has no ancestor
\* labelled IGNORE is the target of exactly one push decision of get_order's
\* output; every other token (labelled IGNORE, or below such a token) is the
\* target of no decision.
C3_PushedExactlyOnceInTree ==
    \A j \in Tokens :
        IF InTree(sentences, j, N)
        THEN PushCount(GetOrder(sentences), j) = 1
        ELSE ~Occurs(GetOrder(sentences), j)

\* C3 witness: the sequence of a sentence with a token in the tree, a token
\* labelled IGNORE and a token below an IGNORE token has been replayed.
C3_Witness ==
    /\ order = <<>> /\ steps > 0
    /\ \E j \in Tokens : InTree(sentences, j, N)
    /\ \E j \in Tokens : sentences[j].label = IGNORE
    /\ \E j \in Tokens : sentences[j].label # IGNORE /\ ~InTree(sentences, j, N)

\* ------------------------------------------------- the parse, read uniformly
NonZero(x) == x # 0
\* the recorded fields of token v and the children list of node v, in the
\* implementation in use
HeadOf(v) == IF impl = "list" THEN heads[v] ELSE state.heads[v]
LabelOf(v) == IF impl = "list" THEN labels[v] ELSE state.edge_labels[v]
SupertagOf(v) == IF impl = "list" THEN supertags[v] ELSE state.constants[v]
LexLabelOf(v) == IF impl = "list" THEN lex_labels[v] ELSE state.lex_labels[v]
ChildrenOf(v) ==
    IF impl = "list" THEN children[v] ELSE SelectSeq(state.children.lol[v], NonZero)
\* the tokens that have received a head
Attached ==
    IF impl = "list" THEN seen \ {0} ELSE {v \in Tokens : state.heads[v] >= 0}
\* the edges of the parse, head first
Edges == {<<HeadOf(v), v>> : v \in Attached}
\* how often node v occurs in a sequence
Count(s, v) == Cardinality({k \in 1..Len(s) : s[k] = v})
RECURSIVE SumCount(_, _)
\* how often node v occurs over the children lists of the nodes 0..p
SumCount(v, p) ==
    Count(ChildrenOf(p), v) + (IF p = 0 THEN 0 ELSE SumCount(v, p - 1))

\* ------------------------------------------------------------------------ C4
\* C4: while every selection was marked valid by the valid-choice row of the
\* preceding step, no node occurs more than once over all children lists nor
\* more than once on the stack plus sub-stack.
C4_PushedAtMostOnce ==
    (impl = "list" /\ Legal) =>
        \A v \in Nodes :
            /\ SumCount(v, N) <= 1
            /\ Count(stack \o sub_stack, v) <= 1

\* C4 witness: after valid selections only, every token has been pushed and
\* two of them wait on the stack.
C4_Witness ==
    /\ impl = "list" /\ Legal /\ N = MaxTokens
    /\ \A v \in Tokens : SumCount(v, N) = 1
    /\ Len(stack) >= 2

\* ------------------------------------------------------------------------ C5
\* every attached token reaches the artificial root along the heads, within
\* N hops (so without meeting a node twice)
IsTreeRootedAt0 ==
    \A v \in Attached :
        IF impl = "list" THEN ReachesRoot(heads, v, N)
        ELSE ReachesRoot([u \in Tokens |-> state.heads[u]], v, N)

C6_HeadSetOnlyByPush ==
    [][last'.op # "reset" =>
        \A v \in Tokens :
            HeadOf(v)' # HeadOf(v) =>
                /\ last'.op = "attach"
                /\ last'.sel = v
                /\ HeadOf(v)' = ActiveNode(CurStack)]_vars

\* C6 witness: a token was pushed below another token, and the parse went on
\* to its end with further attach and close steps.
C6_Witness ==
    /\ CurStack = <<>> /\ last.op = "close"
    /\ \E v \in Tokens : HeadOf(v) > 0
    /\ steps = 2 * N + 1

\* ------------------------------------------------------------------------ C7
\* C7: within a parse of legal selections, the supertag slot and the
\* lexical-label slot of a token v change only in the step that closes v, and
\* its edge-label slot only in the step that attaches v.
C7_SlotsWrittenOnlyByOwnStep ==
    [][(last'.op # "reset" /\ Legal') =>
        \A v \in Tokens :
            /\ SupertagOf(v)' # SupertagOf(v) =>
                  (last'.op = "close" /\ ActiveNode(CurStack) = v)
            /\ LexLabelOf(v)' # LexLabelOf(v) =>
                  (last'.op = "close" /\ ActiveNode(CurStack) = v)
            /\ LabelOf(v)' # LabelOf(v) =>
                  (last'.op = "attach" /\ last'.sel = v)]_vars

\* ------------------------------------------------------------------------ C8
\* the stack after closing its top, given the children attached to the top
StackAfterClose(stk, kids) ==
    ButLast(stk) \o (IF reverse_push_actions THEN kids ELSE Reversed(kids))

SelectedLabel == IF impl = "list" THEN AnnLabel(Ann) ELSE Ann

\* C9: an attach step leaves the stack unchanged, appends the target to the
\* children list of the active node (and to the sub-stack), gives the target
\* its head and edge label and changes no head or edge label of another token
\* and no supertag or lexical label; a token enters the stack only in the
\* close step of the node it was attached to.  The tensor-based children
\* list has MaxLen columns (initial_state); the append is claimed while the
\* row of the active node has a free column, which valid selections ensure.
HasRoom(a) == impl = "tensor" => state.children.ptr[a] < MaxLen(N)

C9_AttachLeavesStack ==
    [][/\ last'.op = "attach" =>
            \A a \in Nodes, t \in Tokens :
                (a = ActiveNode(CurStack) /\ t = last'.sel /\ HasRoom(a)) =>
                /\ CurStack' = CurStack
                /\ ChildrenOf(a)' = Append(ChildrenOf(a), t)
                /\ \A p \in Nodes \ {a} : ChildrenOf(p)' = ChildrenOf(p)
                /\ impl = "list" => sub_stack' = Append(sub_stack, t)
                /\ HeadOf(t)' = a
                /\ LabelOf(t)' = SelectedLabel
                /\ \A v \in Tokens \ {t} : HeadOf(v)' = HeadOf(v) /\ LabelOf(v)' = LabelOf(v)
                /\ \A v \in Tokens : SupertagOf(v)' = SupertagOf(v) /\ LexLabelOf(v)' = LexLabelOf(v)
       /\ (Legal' /\ last'.op # "reset") =>
            \A v \in Tokens :
                Count(CurStack', v) > Count(CurStack, v) =>
                    (last'.op = "close" /\ HeadOf(v) = ActiveNode(CurStack))]_vars

\* C9 witness: a second token has just been attached to a token while another
\* node waits below on the stack.
C9_Witness ==
    /\ last.op = "attach" /\ last.active > 0
    /\ CurStack # <<>> /\ ActiveNode(CurStack) = last.active
    /\ HeadOf(last.sel) = last.active

\* ----------------------------------------------------------------------- C10
\* C10: the state produced by reset_parses / initial_state holds exactly the
\* artificial root on the stack (depth 1, not complete), no recorded child of
\* any node and every head at its unset value, whatever was parsed before.
C10_FreshState ==
    last.op \in {"init", "reset"} =>
        /\ stack = <<0>> /\ sub_stack = <<>> /\ seen = {0}
        /\ \A v \in Nodes : children[v] = <<>>
        /\ \A v \in Tokens : heads[v] = 0
        /\ DOMAIN children = Nodes /\ Len(heads) = N
        /\ state.stack = <<0>> /\ StackDepth(state.stack) = 1
        /\ ~StackIsEmpty(state.stack)
        /\ \A v \in Nodes : state.children.ptr[v] = 0
        /\ \A v \in Nodes : \A k \in 1..MaxLen(N) : state.children.lol[v][k] = 0
        /\ \A v \in Nodes : state.heads[v] = 0 - 1

\* C10 witness: the transition system has been reset after a complete parse.
C10_Witness ==
    /\ last.op = "reset" /\ last.before >= 3

\* ----------------------------------------------------------------------- C11
\* the active node the last step reported for the element
ReportedActiveNode == IF impl = "list" THEN active_node ELSE StackPeek(state.stack)

\* C11: once the stack of the element is empty, every later step of the
\* parse, whatever node is selected, leaves its stack, heads, edge labels,
\* supertags, lexical labels and children unchanged and reports active node 0.
C11_DoneStaysDone ==
    [][(CurStack = <<>> /\ last'.op # "reset") =>
        /\ CurStack' = <<>>
        /\ ReportedActiveNode' = 0
        /\ impl = "list" =>
              UNCHANGED <<stack, heads, labels, supertags, lex_labels, children>>
        /\ impl = "tensor" => UNCHANGED state]_vars

\* C11 witness: a step has selected a token for an element that had already
\* finished a parse with an attached token.
C11_Witness ==
    /\ CurStack = <<>> /\ last.op \in {"done", "none"} /\ last.sel > 0
    /\ \E v \in Tokens : v \in Attached

\* ----------------------------------------------------------------------- C13
\* the close sentinel of the current state
CloseSentinel == IF pop_with_0 THEN 0 ELSE ActiveNode(CurStack)

\* C13: on an element that is not done, a selection that is applied at all is
\* applied as a close exactly when it equals the close sentinel (node 0 with
\* pop_with_0, the active node without); with pop_with_0 = false a selection
\* of a node other than the active node leaves the stack as it is.
C13_CloseIffSentinel ==
    [][(CurStack # <<>> /\ last'.op \notin {"reset", "none"}) =>
        /\ last'.op = "close" <=> last'.sel = CloseSentinel
        /\ (~pop_with_0 /\ last'.sel # CloseSentinel) => CurStack' = CurStack]_vars

\* what holds of the tensor-based make_decision and step alone
C13_TensorCloseIffSentinel ==
    [][(impl = "tensor" /\ CurStack # <<>> /\ last'.op \notin {"reset", "none"}) =>
        /\ last'.op = "close" <=> last'.sel = CloseSentinel
        /\ (~pop_with_0 /\ last'.sel # CloseSentinel) => CurStack' = CurStack]_vars

\* ----------------------------------------------------------------------- C12
\* C12: whatever the scores, the node for which make_decision sets push_mask
\* is never the artificial root 0 and never a node that already has a head.
C12_PushOnlyUnattachedToken ==
    [][(impl = "tensor" /\ last'.op = "attach") =>
        (last'.sel # 0 /\ state.heads[last'.sel] < 0)]_vars

\* what holds of scores that stay below the penalty: no entry of 20000000
C12_PushOnlyUnattachedTokenWhileLegal ==
    [][(impl = "tensor" /\ last'.op = "attach" /\ Legal') =>
        (last'.sel # 0 /\ state.heads[last'.sel] < 0)]_vars

\* ----------------------------------------------------------------------- C14
\* C14: when no legal choice of an element that is not complete scores above
\* the legality threshold, the decision is still a close, and the step that
\* follows pops the stack of the element.
C14_FallbackClose ==
    [][(impl = "tensor" /\ state.stack # <<>> /\ last'.op # "reset") =>
        (last'.op = "none" => state'.stack # state.stack)]_vars

\* ----------------------------------------------------------------------- C15
\* C15: when the decode loop has performed all its iterations and the element
\* is still incomplete, the decode ends in a fatal error: no tree is returned.
C15_CapExhaustedIsFatal ==
    [][(impl = "tensor" /\ steps = OutputSeqLen /\ state.stack # <<>>
            /\ last'.op # "reset") =>
        (failed' /\ ~Returned')]_vars

\* ----------------------------------------------------------------------- C16
\* C16: a tree is extracted only from a completed state: whenever
\* retrieve_parses or extract_tree has returned the parse, the stack of the
\* element is empty.
C16_ExtractOnlyComplete == Returned => CurStack = <<>>

\* what holds of retrieve_parses alone
C16_RetrieveParsesOnlyComplete == (Returned /\ impl = "list") => CurStack = <<>>

RowView(r, n) ==
    IF impl = "list"
    THEN [stack |-> r.stack, heads |-> r.heads, labels |-> r.labels,
          supertags |-> r.supertags, lex_labels |-> r.lex_labels,
          children |-> r.children, active_node |-> r.active_node,
          valid_choices |-> r.valid_choices]
    ELSE [stack |-> r.stack,
          heads |-> [v \in 0..n |-> r.heads[v]],
          labels |-> [v \in 0..n |-> r.edge_labels[v]],
          supertags |-> [v \in 0..n |-> r.constants[v]],
          lex_labels |-> [v \in 0..n |-> r.lex_labels[v]],
          children |-> [v \in 0..n |-> SelectSeq(r.children.lol[v], NonZero)],
          active_node |-> StackPeek(r.stack),
          valid_choices |-> {v \in 0..n : DecisionMask(r, n)[v]}]

\* C19: as long as no step has raised, what the steps leave of the first
\* element of the pair is what they leave of the same element decoded in a
\* batch of its own on the same inputs, whatever the sentence, the state and
\* the inputs of the other element of the pair; so are the trees returned.
C19_ElementIsolation ==
    (batch # NoBatch /\ ~batch.pair.raised /\ ~batch.solo.raised) =>
        /\ RowView(batch.pair.rows[1], batch.pair.n[1])
             = RowView(batch.solo.rows[1], batch.solo.n[1])
        /\ batch.pair.trees # <<>> => batch.pair.trees[1] = batch.solo.trees[1]

\* C19 witness: the first element is in the middle of its parse next to a
\* longer sentence whose element is in another state and is already complete.
C19_Witness ==
    /\ batch # NoBatch /\ ~batch.copies
    /\ ~batch.pair.raised /\ ~batch.solo.raised
    /\ batch.pair.n[1] < batch.pair.n[2]
    /\ batch.pair.steps >= 2
    /\ RowStack(batch.pair.rows[1]) # <<>>
    /\ RowStack(batch.pair.rows[2]) = <<>>
    /\ \E v \in 1..batch.pair.n[1] : RowView(batch.pair.rows[1], batch.pair.n[1]).heads[v] = 0
                                      /\ RowView(batch.pair.rows[1], batch.pair.n[1]).children[0] # <<>>

\* the place of candidate i of the last beam step among all candidates of
\* that step: behind every candidate with a larger combined score and every
\* candidate of equal combined score that was gathered earlier
Rank(i) ==
    1 + Cardinality({j \in 1..Len(beam.candidates) :
            \/ CombinedScore(beam.candidates[j]) > CombinedScore(beam.candidates[i])
            \/ /\ CombinedScore(beam.candidates[j]) = CombinedScore(beam.candidates[i])
               /\ j < i})

\* C20: after a beam step the hypothesis in slot j, for j up to k and up to
\* the number of candidates gathered in the step, is the candidate in place j
\* by descending parent score + decision score, the earlier gathered first
\* among equals, with its decision applied to its parent hypothesis
C20_SurvivorsAreTopK ==
    (beam # NoBeam) =>
        \A i \in 1..Len(beam.candidates) :
            Rank(i) <= beam.k =>
                beam.parsing_states[Rank(i)] =
                    HypStep(beam.candidates[i].parsing_state, beam.candidates[i].decision)

\* a step gathered more than k candidates, and the last survivor shares its
\* combined score with a candidate that was gathered later and did not survive
C20_Witness ==
    /\ beam # NoBeam
    /\ beam.k > 1
    /\ Len(beam.candidates) > beam.k
    /\ \E i, j \in 1..Len(beam.candidates) :
          /\ i < j
          /\ beam.candidates[i].slot # beam.candidates[j].slot
          /\ CombinedScore(beam.candidates[i]) = CombinedScore(beam.candidates[j])
          /\ Rank(i) = beam.k
          /\ beam.parsing_states[beam.k] # HypStep(beam.candidates[j].parsing_state,
                                                   beam.candidates[j].decision)

\* beam search with one hypothesis and the greedy loop agree so far: they
\* hold the same parse, have applied the same decision last and, once the
\* beam search has returned, the tree returned is the tree of the greedy parse
AgreesWithGreedy ==
    /\ beam.parsing_states[1].st = beam.greedy.st
    /\ beam.decision = beam.greedy.decision
    /\ beam.tree # <<>> => beam.tree[1] = RowTree(beam.greedy.st, beam.n)

\* C17: with k = 1 the beam search applies the decisions of the greedy loop
\* on the same sentence and the same deterministic scorer, and returns the
\* same tree
C17_BeamOneIsGreedy ==
    (beam # NoBeam /\ beam.k = 1) => AgreesWithGreedy

\* C17, as long as every iteration has found a choice above the legality
\* threshold: the beam search with k = 1 agrees with the greedy loop
C17_BeamOneIsGreedyWhileFed ==
    (beam # NoBeam /\ beam.k = 1 /\ ~beam.starved) => AgreesWithGreedy

\* the beam search with k = 1 has returned the tree of a complete parse in
\* which some node has two children, without an iteration that found no choice
C17_Fed ==
    /\ beam # NoBeam
    /\ beam.k = 1
    /\ ~beam.starved
    /\ beam.tree # <<>>
    /\ HypIsComplete(beam.parsing_states[1])
    /\ \E u, v \in 1..beam.n : u # v /\ beam.tree[1].heads[u] = beam.tree[1].heads[v]

\* ----------------------------------------------------------------------- C21
\* the parse and the score of hypothesis h are those of some slot of the
\* sequence of hypotheses
HeldIn(h, slots) ==
    \E j \in 1..Len(slots) : slots[j].st = h.st /\ slots[j].score = h.score

\* C21: a hypothesis that is complete is not expanded by a beam step and is
\* still held in one of the k slots of its sentence after the step.
C21_CompleteStays ==
    [][(beam # NoBeam /\ beam' # NoBeam /\ beam'.step = beam.step + 1) =>
          \A j \in 1..beam.k :
              HypIsComplete(beam.parsing_states[j]) =>
                  /\ \A i \in 1..Len(beam'.candidates) : beam'.candidates[i].slot # j
                  /\ HeldIn(beam.parsing_states[j], beam'.parsing_states)]_vars

\* what holds of the expansion alone: a complete hypothesis contributes no
\* candidate
C21_CompleteNotExpanded ==
    [][(beam # NoBeam /\ beam' # NoBeam /\ beam'.step = beam.step + 1) =>
          \A j \in 1..beam.k :
              HypIsComplete(beam.parsing_states[j]) =>
                  \A i \in 1..Len(beam'.candidates) : beam'.candidates[i].slot # j]_vars

\* ----------------------------------------------------------------------- C22
\* C22: after the pruning of a beam step no two slots of the sentence hold
\* hypotheses that reference the same decoder state.
C22_HandlesExclusive ==
    (beam # NoBeam /\ beam.step > 0) =>
        \A i, j \in 1..beam.k :
            i # j => beam.parsing_states[i].decoder_state # beam.parsing_states[j].decoder_state

\* ----------------------------------------------------------------------- C23
\* C23: the configuration check of beam_search raises exactly when a feature
\* the transition system assumes greedy-safe is conditioned on by the context
\* provider or by the tagger context provider; the check leaves the initial
\* hypotheses as they are, and a hypothesis is expanded or stepped only after
\* the check has passed.
C23_ConfigCheckFirst ==
    [][(beam # NoBeam /\ beam' # NoBeam) =>
          /\ beam.phase = "setup" =>
                /\ (beam'.phase = "raised") <=>
                      (\E f \in beam.assumes_greedy_ok :
                          \/ beam.context_provider.present
                                /\ f \in beam.context_provider.conditions_on
                          \/ beam.tagger_context_provider.present
                                /\ f \in beam.tagger_context_provider.conditions_on)
                /\ beam'.phase \in {"raised", "decode"}
                /\ beam'.parsing_states = beam.parsing_states
                /\ beam'.step = 0 /\ beam'.candidates = <<>>
          /\ (beam'.step # beam.step \/ beam'.parsing_states # beam.parsing_states)
                => beam.phase = "decode"
          /\ beam.phase # "raised"]_vars

\* the error has been raised for a feature that only the tagger context
\* provider conditions on, with a context provider present
C23_Witness ==
    /\ beam # NoBeam
    /\ beam.phase = "raised"
    /\ beam.context_provider.present
    /\ beam.assumes_greedy_ok \cap beam.context_provider.conditions_on = {}
    /\ beam.step = 0

\* ----------------------------------------------------------------------- C24
\* the sibling list gather_context computes for the active node of the
\* list-based transition system
ActiveSiblings == GetSiblings(children, heads, active_node)
\* a sequence without every occurrence of x
WithoutAll(q, x) == SelectSeq(q, LAMBDA y : y # x)

\* C24: for an active node v >= 1 the sibling list is the children list of
\* the head of v without v, in the order of attachment, and v is not in it.
C24_SiblingsAreOtherChildren ==
    (impl = "list" /\ ~failed /\ stack # <<>> /\ active_node >= 1) =>
        /\ ActiveSiblings = WithoutAll(children[heads[active_node]], active_node)
        /\ \A j \in 1..Len(ActiveSiblings) : ActiveSiblings[j] # active_node

\* C24, for parses in which every selection was marked valid by the
\* valid-choice row of the preceding step
C24_SiblingsAreOtherChildrenWhileLegal ==
    (impl = "list" /\ Legal /\ ~failed /\ stack # <<>> /\ active_node >= 1) =>
        /\ ActiveSiblings = WithoutAll(children[heads[active_node]], active_node)
        /\ \A j \in 1..Len(ActiveSiblings) : ActiveSiblings[j] # active_node

\* after legal selections only, the active node is a token that has a
\* sibling
C24_LegalSiblings ==
    /\ impl = "list" /\ Legal /\ ~failed /\ stack # <<>> /\ active_node >= 1
    /\ ActiveSiblings # <<>>

\* ----------------------------------------------------------------------- C25
\* the elements of the pair batch of the list-based transition system, the
\* active nodes step returned for them, and what gather_context returns
PairActiveNodes == [i \in 1..2 |-> batch.pair.rows[i].active_node]
PairContext == GatherContext(batch.pair.rows, PairActiveNodes)
\* the sibling list and the children list computed for element i
PairSiblings(i) ==
    GetSiblings(batch.pair.rows[i].children, batch.pair.rows[i].heads, PairActiveNodes[i])
PairChildren(i) == batch.pair.rows[i].children[PairActiveNodes[i]]
\* the larger of two numbers
Larger(a, b) == IF a < b THEN b ELSE a

\* C25: the siblings tensor and the children tensor each have one width for
\* all elements of the batch, the largest number of siblings (children) of an
\* element and at least 1; their masks are true at the positions that hold an
\* entry of the element's list and false at the padding positions behind it.
C25_PaddedToBatchMaximum ==
    (batch # NoBatch /\ impl = "list" /\ ~batch.pair.raised) =>
        LET ws == Larger(1, Larger(Len(PairSiblings(1)), Len(PairSiblings(2))))
            wc == Larger(1, Larger(Len(PairChildren(1)), Len(PairChildren(2))))
        IN  \A i \in 1..2 :
                /\ DOMAIN PairContext.siblings[i] = 1..ws
                /\ DOMAIN PairContext.siblings_mask[i] = 1..ws
                /\ DOMAIN PairContext.children[i] = 1..wc
                /\ DOMAIN PairContext.children_mask[i] = 1..wc
                /\ \A j \in 1..ws :
                      /\ PairContext.siblings_mask[i][j] <=> j <= Len(PairSiblings(i))
                      /\ j <= Len(PairSiblings(i)) =>
                            PairContext.siblings[i][j] = PairSiblings(i)[j]
                /\ \A j \in 1..wc :
                      /\ PairContext.children_mask[i][j] <=> j <= Len(PairChildren(i))
                      /\ j <= Len(PairChildren(i)) =>
                            PairContext.children[i][j] = PairChildren(i)[j]

\* the active node of one element is a token with a sibling and no child,
\* that of the other a token with a child and no sibling
C25_Witness ==
    /\ batch # NoBatch /\ impl = "list" /\ ~batch.pair.raised
    /\ PairActiveNodes[1] >= 1 /\ PairActiveNodes[2] >= 1
    /\ Len(PairSiblings(1)) = 1 /\ Len(PairChildren(1)) = 0
    /\ Len(PairSiblings(2)) = 0 /\ Len(PairChildren(2)) = 1

\* ----------------------------------------------------------------------- C26
\* C26: in a parse of the tensor-based transition system in which only legal
\* decisions were applied, the stack never holds more entries than the
\* capacity initial_state allots (length of the longest sentence + 3), and no
\* capacity check has fired.
C26_StackWithinCapacity ==
    (impl = "tensor" /\ Legal) =>
        /\ ~failed
        /\ StackDepth(state.stack) <= StackCapacity(N)
        /\ StackCapacity(N) = N + 3

\* a close has just replaced the root by all tokens of the longest sentence
C26_Witness ==
    /\ impl = "tensor" /\ Legal /\ ~failed
    /\ N = MaxTokens
    /\ last.op = "close" /\ last.active = 0
    /\ StackDepth(state.stack) = N

\* ----------------------------------------------------------------------- C27
\* get_order has been called on the sentence
OrderComputed == last.op = "get_order"
\* the sequences of the two transition systems that differ in
\* reverse_push_actions only
OrderPlain == GetOrderFor(FALSE, sentences)
OrderReversed == GetOrderFor(TRUE, sentences)
\* the first and the last index of the block of push decisions around index
\* i of sequence a; the decision for the artificial root at index 1 belongs
\* to no block
BlockStart(a, i) ==
    CHOOSE s \in 2..i : (\A j \in s..i : ~a[j].pop) /\ (s = 2 \/ a[s - 1].pop)
BlockEnd(a, i) ==
    CHOOSE e \in i..Len(a) : (\A j \in i..e : ~a[j].pop) /\ (e = Len(a) \/ a[e + 1].pop)

\* C27: the sequence for reverse_push_actions = true is the sequence for
\* reverse_push_actions = false with every block of push decisions reversed in
\* place; the close decisions, and with them the order in which the children
\* are expanded, are the same at the same indices.
C27_OnlyPushBlocksReversed ==
    OrderComputed =>
        /\ order = (IF reverse_push_actions THEN OrderReversed ELSE OrderPlain)
        /\ Len(OrderReversed) = Len(OrderPlain)
        /\ OrderReversed[1] = OrderPlain[1]
        /\ \A i \in 2..Len(OrderPlain) :
              IF OrderPlain[i].pop
              THEN OrderReversed[i] = OrderPlain[i]
              ELSE OrderReversed[i] =
                      OrderPlain[BlockStart(OrderPlain, i) + BlockEnd(OrderPlain, i) - i]

\* the sequence was computed with reverse_push_actions = true for a tree in
\* which a node has two children of which the first expanded has a child
C27_Witness ==
    /\ OrderComputed /\ reverse_push_actions
    /\ order # OrderPlain
    /\ \E i \in 2..(Len(order) - 4) :
          /\ ~order[i].pop /\ ~order[i + 1].pop /\ order[i + 2].pop
          /\ ~order[i + 3].pop /\ order[i + 4].pop

\* ----------------------------------------------------------------------- C28
\* the index of the push decision of token c in the computed sequence, 0 if
\* there is none
PushIndex(c) ==
    IF \E i \in 2..Len(order) : ~order[i].pop /\ order[i].position = c
    THEN CHOOSE i \in 2..Len(order) : ~order[i].pop /\ order[i].position = c
    ELSE 0
\* the index of the close decision of token c (without pop_with_0 it carries
\* the position of the token), 0 if there is none
CloseIndex(c) ==
    IF \E i \in 2..Len(order) : order[i].pop /\ order[i].position = c
    THEN CHOOSE i \in 2..Len(order) : order[i].pop /\ order[i].position = c
    ELSE 0
\* child c1 is pushed before child c2 and, where the close decisions tell,
\* expanded before it
PushedAndExpandedBefore(c1, c2) ==
    /\ PushIndex(c1) < PushIndex(c2)
    /\ ~pop_with_0 => CloseIndex(c1) < CloseIndex(c2)
\* the distance of the positions of two nodes
Distance(a, b) == IF a < b THEN b - a ELSE a - b
\* c1 and c2 are two children of node v that both have a push decision
PushedSiblings(v, c1, c2) ==
    /\ c1 # c2
    /\ sentences[c1].head = v /\ sentences[c2].head = v
    /\ PushIndex(c1) > 0 /\ PushIndex(c2) > 0

\* C28 as stated: under IO without reverse_push_actions, of two children of a
\* node the one nearer to the node is pushed and expanded first, on whichever
\* sides of the node the two lie.
C28_NearerFirst ==
    (OrderComputed /\ children_order = "IO" /\ ~reverse_push_actions) =>
        \A v \in 0..N : \A c1, c2 \in 1..N :
            (PushedSiblings(v, c1, c2) /\ Distance(c1, v) < Distance(c2, v))
                => PushedAndExpandedBefore(c1, c2)

\* C28, amended: of two children on the same side of the node the nearer one
\* is pushed and expanded first, and every child to the left of the node is
\* pushed and expanded before every child to its right.
C28_NearerFirstPerSide ==
    (OrderComputed /\ children_order = "IO" /\ ~reverse_push_actions) =>
        \A v \in 0..N : \A c1, c2 \in 1..N :
            PushedSiblings(v, c1, c2) =>
                /\ ((c1 < v <=> c2 < v) /\ Distance(c1, v) < Distance(c2, v))
                      => PushedAndExpandedBefore(c1, c2)
                /\ (c1 < v /\ v < c2) => PushedAndExpandedBefore(c1, c2)

\* a node has a child two positions to its left and a child next to it on
\* its right, and the left child is pushed first
C28_Witness ==
    /\ OrderComputed /\ children_order = "IO" /\ ~reverse_push_actions
    /\ \E v \in 0..N : \E c1, c2 \in 1..N :
          /\ PushedSiblings(v, c1, c2)
          /\ c1 < v /\ v < c2
          /\ Distance(c2, v) < Distance(c1, v)
          /\ PushIndex(c1) < PushIndex(c2)

\* ----------------------------------------------------------------------- C29
\* C29: the first decision of the sequence get_order returns targets the
\* artificial root, position 0, as the loss computation asserts of the first
\* element of every gold sequence.
C29_StartsWithRoot ==
    OrderComputed => (order # <<>> /\ order[1].position = 0)

\* the sequence of a sentence of the largest length in which the root has a
\* child that is not ignored
C29_Witness ==
    /\ OrderComputed
    /\ N = MaxOrderTokens
    /\ Len(order) > 2
    /\ ~order[2].pop /\ order[2].position # 0

\* ----------------------------------------------------------------------- C30
\* the number of slots the survivors of the last beam step were written to
SurvivorCount ==
    IF Len(beam.candidates) < beam.k THEN Len(beam.candidates) ELSE beam.k

\* C30: in beam step 0 only the hypothesis of the first slot is expanded, and
\* the survivors of step 0 are continuations of the initial state by pairwise
\* distinct decisions: no two slots are filled by applying the same decision.
C30_StepZeroExpandsFirstOnly ==
    (beam # NoBeam /\ beam.step = 1) =>
        /\ \A i \in 1..Len(beam.candidates) :
              /\ beam.candidates[i].slot = 1
              /\ beam.candidates[i].parsing_state.st = InitialState(beam.n)
        /\ \A i, j \in 1..Len(beam.candidates) :
              i # j => beam.candidates[i].decision.position
                          # beam.candidates[j].decision.position
        /\ \A r \in 1..SurvivorCount :
              \E i \in 1..Len(beam.candidates) :
                  /\ Rank(i) = r
                  /\ beam.parsing_states[r].st =
                        TensorStepResult(InitialState(beam.n),
                            DecisionRow(InitialState(beam.n),
                                beam.candidates[i].decision.position, TRUE,
                                beam.candidates[i].decision.ann,
                                beam.candidates[i].decision.ann,
                                beam.candidates[i].decision.ann))
        /\ \A r, s \in 1..SurvivorCount :
              r # s => beam.parsing_states[r].st # beam.parsing_states[s].st

\* step 0 of a search with the largest number of hypotheses has gathered a
\* candidate for every slot from the first hypothesis and filled all slots
C30_Witness ==
    /\ beam # NoBeam /\ beam.step = 1
    /\ beam.k = MaxBeam
    /\ Len(beam.candidates) = beam.k
    /\ beam.parsing_states[1].st # InitialState(beam.n)
    /\ beam.parsing_states[2].st # InitialState(beam.n)

\* ----------------------------------------------------------------------- C31
\* C31: after every beam step the active node with which the scorer is
\* queried for slot j is the active node of the hypothesis held in slot j,
\* and the decoder state installed for the row is the one that hypothesis
\* holds, also after a step with fewer than k continuations.
C31_RowsFollowSlots ==
    (beam # NoBeam /\ beam.step > 0) =>
        \A j \in 1..beam.k :
            /\ beam.next_active_nodes[j] = HypActiveNode(beam.parsing_states[j])
            /\ InstalledDecoderStates(beam.parsing_states)[j]
                  = beam.parsing_states[j].decoder_state

\* what holds of the slots that a survivor of the step was written to
C31_FilledRowsFollowSlots ==
    (beam # NoBeam /\ beam.step > 0) =>
        \A j \in 1..SurvivorCount :
            beam.next_active_nodes[j] = HypActiveNode(beam.parsing_states[j])

\* ------------------------- the two transition systems on the same decisions
\* the list-based and the tensor-based transition system parse the same
\* sentence under the same pop_with_0 and reverse_push_actions
InitTwin ==
    /\ impl = "twin"
    /\ children_order = "IO"
    /\ pop_with_0 \in BOOLEAN
    /\ reverse_push_actions \in BOOLEAN
    /\ has_constants = TRUE
    /\ has_lex_labels = TRUE
    /\ \E n \in 1..MaxTwinTokens : InitParse(BlankSentence(n))
    /\ order = <<>>
    /\ budget = 0
    /\ batch = NoBatch /\ beam = NoBeam /\ logic = NoLogic

\* both step functions are given the node sel, which the valid-choice row of
\* the previous step allows, and the annotation id a: ltl.py's step gets the
\* selection, dfs_children_first.py's step the decision row make_decision
\* builds for that node
TwinStep(sel, a) ==
    /\ impl = "twin"
    /\ steps < OutputSeqLen
    /\ stack = <<>> \/ IsValidSelection(sel)
    /\ ListStep(sel, AnnLabel(a), JoinSupertag(<<AnnFragment(a), AnnType(a)>>), AnnLex(a))
    /\ state' = TensorStepResult(state, DecisionRow(state, sel, TRUE, a, a, a))
    /\ steps' = steps + 1
    /\ last' = LastOp(StepKind(sel), sel, ActiveNode(stack))
    /\ UNCHANGED <<cfgvars, loopvars, sentences, order, illegal>>

NextTwin == \E sel \in Nodes : TwinStep(sel, Ann)

SpecTwin == InitTwin /\ [][NextTwin]_vars

\* the tokens the tensor-based state has given a head
TensorAttached == {j \in Tokens : state.heads[j] >= 0}

\* both versions report the same active node, have attached the same tokens
\* and have given each of them the same head
SameActiveAndHeads ==
    /\ ActiveNode(stack) = StackPeek(state.stack)
    /\ TensorAttached = seen \ {0}
    /\ \A j \in TensorAttached : heads[j] = state.heads[j]

\* C32: fed the same legal decisions under the same pop_with_0 and
\* reverse_push_actions, the list-based and the tensor-based step leave the
\* same active node and the same head of every token pushed so far after
\* every step, and while the stack of the list-based version is not empty its
\* sub_stack equals the children list of the active node
C32_StepsEquivalent ==
    impl = "twin" =>
        /\ SameActiveAndHeads
        /\ stack # <<>> => sub_stack = children[ActiveNode(stack)]

\* a close has flushed two children onto the stack in both versions
C32_Witness ==
    /\ impl = "twin"
    /\ last.op = "close"
    /\ Len(stack) >= 2
    /\ Len(state.stack) >= 2

\* C32 as stated: the sub_stack equals the children list of the active node
\* in every state, also once the parse is finished
C32_SubStackAlwaysChildren ==
    impl = "twin" =>
        /\ SameActiveAndHeads
        /\ sub_stack = children[ActiveNode(stack)]

\* the best masked score of the element for a row of scores
BestMaskedScore(children_scores) ==
    MaskedScores(state, N, children_scores)[ArgMax(MaskedScores(state, N, children_scores))]

\* C33: whatever scores the edge model gives, the decision row make_decision
\* builds never has push_mask and pop_mask both true; both are false when the
\* stack of the element is empty and when its best masked score is not above
\* the legality threshold; and step leaves an element unchanged whose masks
\* are both false
C33_MasksExclusive ==
    impl = "tensor" =>
        \A children_scores \in ScoreRows(N) : \A a \in 0..(NumAnn - 1) :
            LET d == MakeDecision(state, N, children_scores, a, a, a)
            IN  /\ ~(d.push_mask /\ d.pop_mask)
                /\ (StackIsEmpty(state.stack)
                      \/ BestMaskedScore(children_scores) <= LegalityThreshold)
                        => (~d.push_mask /\ ~d.pop_mask)
                /\ (~d.push_mask /\ ~d.pop_mask) => TensorStepResult(state, d) = state

\* after a token was attached, a step has been made with both masks false on
\* a stack that is not empty
C33_Witness ==
    /\ impl = "tensor"
    /\ last.op = "none"
    /\ steps >= 2
    /\ ~StackIsEmpty(state.stack)
    /\ \E j \in Tokens : state.heads[j] >= 0

\* C34: after every step of a parse whose selections were all legal, the
\* valid-choice row of the element marks no position if its stack is empty,
\* also after the very step that emptied it, and otherwise marks exactly the
\* close sentinel and the tokens not yet pushed
C34_NoChoiceOnceEmpty ==
    (impl = "list" /\ steps > 0 /\ ~failed /\ Legal) =>
        valid_choices = IF stack = <<>> THEN {}
                        ELSE {CloseSentinel} \cup {child \in Tokens : child \notin seen}

\* the same for the elements whose stack is not empty after the step
C34_ChoicesWhileOpen ==
    (impl = "list" /\ steps > 0 /\ ~failed /\ Legal /\ stack # <<>>) =>
        valid_choices = {CloseSentinel} \cup {child \in Tokens : child \notin seen}

\* what gather_context returns for the element when it is passed the
\* artificial root as active node
RootContext == GatherContext(<<[heads |-> heads, children |-> children]>>, <<0>>)

\* C35: in every state of a parse whose selections were all legal in which
\* the active node is the artificial root 0 (before, while and after its
\* children are attached, and once the element is finished), gather_context
\* reports parent 0 and no sibling for it
C35_RootHasNoContext ==
    (impl = "list" /\ ~failed /\ Legal /\ ActiveNode(stack) = 0) =>
        /\ RootContext.parents[1] = 0
        /\ \A j \in 1..Len(RootContext.siblings_mask[1]) : ~RootContext.siblings_mask[1][j]

\* the same before the first token is attached
C35_RootHasNoContextAtStart ==
    (impl = "list" /\ ~failed /\ Legal /\ ActiveNode(stack) = 0 /\ seen = {0}) =>
        /\ RootContext.parents[1] = 0
        /\ \A j \in 1..Len(RootContext.siblings_mask[1]) : ~RootContext.siblings_mask[1][j]

\* C36: a step of the list-based transition system on an element that is not
\* done, whose selected node has been pushed before and is not the close
\* sentinel, leaves heads, edge labels, children lists and the sub-stack as
\* they are, with pop_with_0 set and unset
C36_NoReattach ==
    [][(/\ impl = "list" /\ stack # <<>>
        /\ last'.op \in {"attach", "close", "failed"}
        /\ last'.sel \in seen
        /\ last'.sel # CloseSentinel)
         => UNCHANGED <<heads, labels, children, sub_stack>>]_vars

\* what holds with pop_with_0 unset
C36_NoReattachWithoutPopWith0 ==
    [][(/\ impl = "list" /\ stack # <<>> /\ ~pop_with_0
        /\ last'.op \in {"attach", "close", "failed"}
        /\ last'.sel \in seen
        /\ last'.sel # CloseSentinel)
         => UNCHANGED <<heads, labels, children, sub_stack>>]_vars

\* C37: for every decision of a gold sequence, get_additional_choices has
\* the key selected_edge_labels only if the label is not empty, the key
\* selected_constants only if the supertag is not the empty pair, and the key
\* selected_lex_labels whenever the lexical label is not empty
C37_ChoicesFollowDecision ==
    (impl = "list" /\ order # <<>>) =>
        LET d == Head(order)
            r == GetAdditionalChoices(d)
        IN  /\ "selected_edge_labels" \in DOMAIN r => d.label # ""
            /\ "selected_constants" \in DOMAIN r => d.supertag # <<"", "">>
            /\ d.lexlabel # "" => "selected_lex_labels" \in DOMAIN r

\* --------------------------------------------------------- logic_torch.py
\* a boolean entry as the number it is multiplied and summed as
Num(x) == IF x THEN 1 ELSE 0

\* the sum of a row of numbers
RECURSIVE SumRow(_)
SumRow(row) == IF row = <<>> THEN 0 ELSE Head(row) + SumRow(Tail(row))

\* a product that looks at the first slot only
DotProduct_FirstSlot(row, col) == Num(row[1]) * Num(col[1])

\* one entry of a matrix product: sum over the slots of row[slot]*col[slot]
DotProduct(row, col) == SumRow([slot \in 1..Len(row) |-> Num(row[slot]) * Num(col[slot])])

\* column c of a matrix of shape (set capacity, columns)
Column(matrix, c) == [slot \in 1..Len(matrix) |-> matrix[slot][c]]

\* batched_set @ mapping, shape (batch_size, constants)
MatMul(batched_set, mapping) ==
    [b \in 1..Len(batched_set) |->
        [c \in 1..Len(mapping[1]) |-> DotProduct(batched_set[b], Column(mapping, c))]]

\* torch.bmm(batched_set.unsqueeze(1), mapping).squeeze(1)
Bmm(batched_set, mapping) ==
    [b \in 1..Len(batched_set) |->
        [c \in 1..Len(mapping[b][1]) |-> DotProduct(batched_set[b], Column(mapping[b], c))]]

\* tensor > 0, elementwise
Positive(tensor) ==
    [b \in 1..Len(tensor) |-> [c \in 1..Len(tensor[b]) |-> tensor[b][c] > 0]]

\* index_OR
IndexOR(batched_set, mapping) == Positive(MatMul(batched_set, mapping))

\* batched_index_OR
BatchedIndexOR(batched_set, mapping) == Positive(Bmm(batched_set, mapping))

\* are_eq on integer tensors: a == b
AreEq(a, b) == a = b

\* consistent_with_and_can_finish_now: <<can_finish_now, consistent>>
ConsistentWithAndCanFinishNow(batched_set, mapping, apply_set_exists, minimal_apply_set_size) ==
    LET set_size == [b \in 1..Len(batched_set) |->
                        SumRow([s \in 1..Len(batched_set[b]) |-> Num(batched_set[b][s])])]
        result == Bmm(batched_set, mapping)
        consistent == [b \in 1..Len(batched_set) |->
                          [l \in 1..Len(result[b]) |->
                              AreEq(result[b][l], set_size[b]) /\ apply_set_exists[b][l]]]
        can_finish_now == [b \in 1..Len(batched_set) |->
                              [l \in 1..Len(result[b]) |->
                                  consistent[b][l] /\ result[b][l] >= minimal_apply_set_size[b][l]]]
    IN  <<can_finish_now, consistent>>

\* the tensors of a shape: entries from vals
Matrix(rows, cols, vals) == [1..rows -> [1..cols -> vals]]
Cube(batch_size, rows, cols, vals) == [1..batch_size -> Matrix(rows, cols, vals)]

\* the shapes (batch size, columns) of the results
LogicShapes ==
    {sh \in (1..MaxLogicBatch) \X (1..MaxLexicalTypes) : sh[1] * sh[2] <= MaxLogicCells}

\* the inputs of index_OR and batched_index_OR
OrInputs ==
    UNION {[op : {"or_inputs"},
            batched_set : Matrix(sh[1], MaxSetCapacity, BOOLEAN),
            mapping : Matrix(MaxSetCapacity, sh[2], BOOLEAN),
            batched_mapping : Cube(sh[1], MaxSetCapacity, sh[2], BOOLEAN),
            apply_set_exists : {<<>>},
            minimal_apply_set_size : {<<>>},
            result : {<<>>}] : sh \in LogicShapes}

\* the inputs of consistent_with_and_can_finish_now
ConsistentInputs ==
    UNION {[op : {"consistent_inputs"},
            batched_set : Matrix(sh[1], MaxSetCapacity, BOOLEAN),
            mapping : {<<>>},
            batched_mapping : Cube(sh[1], MaxSetCapacity, sh[2], BOOLEAN),
            apply_set_exists : Matrix(sh[1], sh[2], BOOLEAN),
            minimal_apply_set_size : Matrix(sh[1], sh[2], 0..MaxSetCapacity),
            result : {<<>>}] : sh \in LogicShapes}

InitLogic ==
    /\ impl = "logic"
    /\ children_order = "IO"
    /\ pop_with_0 = FALSE
    /\ reverse_push_actions = FALSE
    /\ has_constants = TRUE
    /\ has_lex_labels = TRUE
    /\ InitParse(BlankSentence(1))
    /\ order = <<>>
    /\ budget = 0
    /\ batch = NoBatch /\ beam = NoBeam
    /\ logic \in OrInputs \cup ConsistentInputs

IndexORCall ==
    /\ logic.op = "or_inputs"
    /\ logic' = [logic EXCEPT !.op = "index_OR",
                              !.result = IndexOR(logic.batched_set, logic.mapping)]
    /\ UNCHANGED <<cfgvars, sentences, listvars, state, order, steps, illegal, last, batch, beam>>

BatchedIndexORCall ==
    /\ logic.op = "or_inputs"
    /\ logic' = [logic EXCEPT !.op = "batched_index_OR",
                              !.result = BatchedIndexOR(logic.batched_set, logic.batched_mapping)]
    /\ UNCHANGED <<cfgvars, sentences, listvars, state, order, steps, illegal, last, batch, beam>>

ConsistentCall ==
    /\ logic.op = "consistent_inputs"
    /\ logic' = [logic EXCEPT !.op = "consistent_with_and_can_finish_now",
                              !.result = ConsistentWithAndCanFinishNow(
                                             logic.batched_set, logic.batched_mapping,
                                             logic.apply_set_exists, logic.minimal_apply_set_size)]
    /\ UNCHANGED <<cfgvars, sentences, listvars, state, order, steps, illegal, last, batch, beam>>

NextLogic == IndexORCall \/ BatchedIndexORCall \/ ConsistentCall

SpecLogic == InitLogic /\ [][NextLogic]_vars

\* the slots, batch elements and columns of the tensors being evaluated
LogicSlots == 1..MaxSetCapacity
LogicBatch == 1..Len(logic.batched_set)
LogicColumns == 1..Len(logic.batched_mapping[1][1])

\* C38: the first tensor consistent_with_and_can_finish_now returns is true
\* at [b,l] exactly when, for every slot s, batched_set[b,s] holds if and only
\* if mapping[b,s,l] holds, whatever apply_set_exists and
\* minimal_apply_set_size are
C38_FirstIsSetEquality ==
    (logic # NoLogic /\ logic.op = "consistent_with_and_can_finish_now") =>
        \A b \in LogicBatch : \A l \in LogicColumns :
            logic.result[1][b][l]
                <=> \A s \in LogicSlots :
                        logic.batched_set[b][s] <=> logic.batched_mapping[b][s][l]

\* what holds of the first tensor: the set of element b is contained in the
\* apply set of l, the apply set exists, and the set has at least the
\* minimal size
C38_FirstIsSubsetOfExistingApplySet ==
    (logic # NoLogic /\ logic.op = "consistent_with_and_can_finish_now") =>
        \A b \in LogicBatch : \A l \in LogicColumns :
            logic.result[1][b][l]
                <=> /\ \A s \in LogicSlots :
                          logic.batched_set[b][s] => logic.batched_mapping[b][s][l]
                    /\ logic.apply_set_exists[b][l]
                    /\ Cardinality({s \in LogicSlots : logic.batched_set[b][s]})
                          >= logic.minimal_apply_set_size[b][l]

\* C39: index_OR returns R with R[b,c] true exactly when some slot l has
\* batched_set[b,l] and mapping[l,c] true, and batched_index_OR the same with
\* mapping[b,l,c]
C39_IndexOrIsExists ==
    /\ (logic # NoLogic /\ logic.op = "index_OR") =>
          \A b \in LogicBatch : \A c \in LogicColumns :
              logic.result[b][c]
                  <=> \E l \in LogicSlots : logic.batched_set[b][l] /\ logic.mapping[l][c]
    /\ (logic # NoLogic /\ logic.op = "batched_index_OR") =>
          \A b \in LogicBatch : \A c \in LogicColumns :
              logic.result[b][c]
                  <=> \E l \in LogicSlots :
                          logic.batched_set[b][l] /\ logic.batched_mapping[b][l][c]

\* batched_index_OR has returned a row with a true and a false entry, the
\* true one reached through the second slot only
C39_Witness ==
    /\ logic # NoLogic /\ logic.op = "batched_index_OR"
    /\ \E b \in LogicBatch : \E c, d \in LogicColumns :
          /\ logic.result[b][c] /\ ~logic.result[b][d]
          /\ ~(logic.batched_set[b][1] /\ logic.batched_mapping[b][1][c])

====
